---- MODULE Spec2Model ----
(***************************************************************************)
(* Model of brighter87-star/asset_us: the lot ledger built from the trade  *)
(* history (services/lot_service.py) and the monitoring loop with its      *)
(* trigger ledger and order coordinator (services/monitor_service.py,      *)
(* services/order_service.py, services/kis_service.py, auto_trade.py).     *)
(***************************************************************************)
EXTENDS Integers, Sequences, FiniteSets, TLC

\* ------------------------------------------------------------------------
\* Bounds of the model
\* ------------------------------------------------------------------------
MaxDate == 4
MaxQty == 3
MaxTrades == 4

\* ------------------------------------------------------------------------
\* Part 1: lot ledger (services/lot_service.py)
\* One (stock_code, crd_class, loan_dt) group; the lot table is keyed by
\* trade_date inside that group.
\* ------------------------------------------------------------------------
VARIABLES
    trades,      \* rows of account_trade_history for the group
    lots,        \* daily_lots rows of the group, by trade_date (NoLot = no row)
    prevLots,    \* lot table before the last processed (group, trade_date) key
    lotPc,       \* "idle" | "running": position of construct_daily_lots
    lotCursor,   \* trade_date of the last processed key of the running call
    lotFresh,    \* TRUE while the running/last call started from an emptied table
    lotWarned,   \* over-sell warning printed by the last processed key
    baseline     \* trades and lots at the end of the last call that started empty

lotVars == <<trades, lots, prevLots, lotPc, lotCursor, lotFresh, lotWarned, baseline>>

\* state of the trading loop (Part 2)
VARIABLES
    etDate,          \* date in US Eastern time (_get_today_et)
    phase,           \* time of day in US Eastern time
    localDate,       \* date of the operator's clock (datetime.now().date())
    last_date,       \* run_trading_loop: last_date (0 = None)
    pc,              \* position of the trading loop
    idx,             \* index of the watchlist item under evaluation
    daily_triggers,  \* MonitorService.daily_triggers
    triggerFile,     \* .daily_triggers.json
    apiBuysCache,    \* MonitorService._today_api_buys
    positions,       \* OrderService.positions
    closeSynced,     \* MonitorService._close_synced
    price,           \* last quote per symbol (poller cache)
    openPx,          \* opening quote per symbol
    orders,          \* orders accepted by the broker, in submission order
    dbSynced,        \* the orders present in account_trade_history (indexes)
    holdingsDb,      \* latest holdings snapshot of the store per symbol
    closeRanDay,     \* ET date on which execute_close_logic has run (0 = not today)
    bgSync,          \* a _quick_sync_after_trade thread is running
    lastEval,        \* what the last entry evaluation saw and did
    subLog,          \* order submissions of the running cycle, in call order
    resetEt          \* ET date at the last reset_daily_triggers (0 = none yet)

loopVars == <<etDate, phase, localDate, last_date, pc, idx, daily_triggers, triggerFile,
              apiBuysCache, positions, closeSynced, price, openPx, orders, dbSynced,
              holdingsDb, closeRanDay, bgSync, lastEval, subLog, resetEt>>

\* state of a trigger reconciliation run (Part 3)
VARIABLES
    mergeLog,        \* sources merged so far in the current run, in merge order
    firstRun         \* the map the first complete run left (NoRun before)

mergeVars == <<mergeLog, firstRun>>

\* state of the position sizing (Part 4)
VARIABLES
    total_assets,    \* MonitorService._total_assets (0 = not fetched)
    lotCost,         \* SUM(total_cost) of the daily_lots rows with net_quantity > 0, per symbol
    unitsNow,        \* what get_current_units_held saw and returned, if it was the last call
    stopNow          \* what check_stop_loss was given and returned, if it was the last call

sizeVars == <<total_assets, lotCost, unitsNow, stopNow>>

\* the checks of a monitoring cycle (Part 5)
VARIABLES
    checkLog,        \* checks of the running cycle: which check on which watchlist item
    cycleHeld        \* per watchlist item: "none", or the position is of "today" / "before"

cycleVars == <<checkLog, cycleHeld>>

\* one iteration of run_trading_loop with its failures (Part 6)
VARIABLES
    current_time,     \* run_trading_loop: current_time of the running iteration
    last_status_time  \* run_trading_loop: last_status_time

iterVars == <<current_time, last_status_time>>

\* the trade store under _sync_single_day_trades (Part 7)
VARIABLES
    tradeStore,      \* rows of account_trade_history, in insertion order
    lastSync         \* the last call: how many executed records it was given, how many
                     \* of them the store knew already, the count returned

syncVars == <<tradeStore, lastSync>>

\* the lot metrics under update_lot_metrics (Part 9)
VARIABLES
    metricLots,   \* open and closed daily_lots rows with their metric columns
    cur_prc,   \* cur_prc of today's holdings row of the group (NoRow = no row)
    metricRuns   \* calls of update_lot_metrics so far

metricVars == <<metricLots, cur_prc, metricRuns>>

\* the broker clients and their throttle (Part 10)
VARIABLES
    now,   \* time.time(), in quarters of a second
    last_call_time,   \* KISAPIClient._last_call_time of each client instance
    sleeping,   \* threads inside time.sleep of _wait_for_rate_limit
    lastRequest,   \* the last request sent to the broker: when, by which client, after a sleep or not
    lastGap   \* time between the last two requests sent to the broker

throttleVars == <<now, last_call_time, sleeping, lastRequest, lastGap>>

\* the holdings table beyond the watchlist (Part 12)
VARIABLES
    newestSnapshot   \* latest snapshot_date among the holdings rows of other symbols (0 = none)

snapVars == <<newestSnapshot>>

\* one call of get_trade_history and its pages (Part 13)
VARIABLES
    histPc,   \* idle, running, returned or raised
    page,   \* page of the loop
    all_trades,   \* number of records in all_trades
    tr_cont_next,   \* tr_cont header of the next request
    histResult,   \* what the call returned, if it returned
    requests,   \* page requests sent by the call
    delivered,   \* records in the output of the answered pages of the call
    lastOk,   \* the last response was no error
    histCalls   \* calls so far

histVars == <<histPc, page, all_trades, tr_cont_next, histResult, requests, delivered, lastOk, histCalls>>

vars == <<lotVars, loopVars, mergeVars, sizeVars, cycleVars, iterVars, syncVars, metricVars, throttleVars, snapVars, histVars>>

\* watchlist items of Part 5
MaxItems == 2

Items == 1..MaxItems

NoHeld == [i \in Items |-> "none"]

Check(check, item) == [check |-> check, item |-> item]

\* the checks of a sweep over the open positions S, in the order of the cache
RECURSIVE SweepChecks(_, _, _)
SweepChecks(check, S, i) ==
    IF i > MaxItems THEN <<>>
    ELSE (IF i \in S THEN <<Check(check, i)>> ELSE <<>>) \o SweepChecks(check, S, i + 1)

HeldAs(H, what) == {i \in Items : H[i] = what}

Dates == 1..MaxDate
Qtys == 1..MaxQty

\* Fixed-point scale of the money columns of daily_lots
Scale == 100

NoLot == [absent |-> TRUE]
NoRun == [absent |-> TRUE]
NoBaseline == [absent |-> TRUE]
NoSync == [absent |-> TRUE]
NoRow == [absent |-> TRUE]
NoSleep == [absent |-> TRUE]
NoRequest == [absent |-> TRUE]
NoGap == [absent |-> TRUE]
NoResult == [absent |-> TRUE]

\* the KISAPIClient instances of the trading process: MonitorService.client,
\* OrderService.client, RestPricePoller.client and the client the background
\* sync creates
Clients == {"monitor", "order", "poller", "sync"}

\* the main thread, the poll thread and the background sync thread
Threads == {"main", "poll", "bg"}

\* time.time() when the process starts, in quarters of a second
ThrottleStart == 10

\* io_tp_nm values drawn for the trade rows
IoNames == {"buy", "sell"}

IsBuy(io) == io \in {"buy", "buysell"}

IsSell(io) == io \in {"sell"}

\* cntr_uv of a drawn trade row: fixed by side, date and quantity so that
\* same-day rows carry different prices
UnitPrice(io, d, q) == IF io = "buy" THEN 9 + q ELSE 10 + d

TradeUniverse ==
    {[trade_date |-> d, io_tp_nm |-> io, cntr_qty |-> q, cntr_uv |-> UnitPrice(io, d, q)] :
        d \in Dates, io \in IoNames, q \in Qtys}

RECURSIVE SumQty(_)
SumQty(S) ==
    IF S = {} THEN 0
    ELSE LET x == CHOOSE y \in S : TRUE
         IN x.cntr_qty + SumQty(S \ {x})

RECURSIVE SumValue(_)
SumValue(S) ==
    IF S = {} THEN 0
    ELSE LET x == CHOOSE y \in S : TRUE
         IN x.cntr_qty * x.cntr_uv + SumValue(S \ {x})

Min(a, b) == IF a <= b THEN a ELSE b

Max(a, b) == IF a >= b THEN a ELSE b

\* round-half-up division, used where a Decimal is written to a money column
RoundDiv(n, d) == (2 * n + d) \div (2 * d)

HasLot(L, d) == L[d] # NoLot

IsOpenLot(L, d) == HasLot(L, d) /\ ~L[d].is_closed

EmptyLots == [d \in Dates |-> NoLot]

\* _get_existing_lot_quantity: open lots strictly before the date
RECURSIVE ExistingLotQuantity(_, _)
ExistingLotQuantity(L, before) ==
    IF before <= 1 THEN 0
    ELSE (IF IsOpenLot(L, before - 1) THEN L[before - 1].net_quantity ELSE 0)
         + ExistingLotQuantity(L, before - 1)

\* a partial reduction that lowers the quantity and keeps the stored cost
ReduceOneLotKeepCost(lot, d, remaining, sell_date, sellValue, sellQty) ==
    IF lot.net_quantity <= remaining
    THEN [lot EXCEPT !.is_closed = TRUE,
                     !.closed_date = sell_date,
                     !.net_quantity = 0,
                     !.current_price = RoundDiv(sellValue * Scale, sellQty),
                     !.holding_days = sell_date - d,
                     !.realized_pnl =
                         RoundDiv((sellValue * Scale - lot.avg_purchase_price * sellQty)
                                  * lot.net_quantity, sellQty)]
    ELSE [lot EXCEPT !.net_quantity = lot.net_quantity - remaining]

\* One lot of the LIFO walk: full close when lot_qty <= remaining, partial
\* reduction otherwise.  sellValue / sellQty is the average sell price.
ReduceOneLot(lot, d, remaining, sell_date, sellValue, sellQty) ==
    IF lot.net_quantity <= remaining
    THEN [lot EXCEPT !.is_closed = TRUE,
                     !.closed_date = sell_date,
                     !.net_quantity = 0,
                     !.current_price = RoundDiv(sellValue * Scale, sellQty),
                     !.holding_days = sell_date - d,
                     !.realized_pnl =
                         RoundDiv((sellValue * Scale - lot.avg_purchase_price * sellQty)
                                  * lot.net_quantity, sellQty)]
    ELSE [lot EXCEPT !.net_quantity = lot.net_quantity - remaining,
                     !.total_cost = lot.avg_purchase_price * (lot.net_quantity - remaining)]

\* FIFO variant of the walk (oldest lot first)
RECURSIVE ReduceWalkFifo(_, _, _, _, _, _)
ReduceWalkFifo(L, d, remaining, sell_date, sellValue, sellQty) ==
    IF d > sell_date \/ remaining <= 0 THEN L
    ELSE IF ~IsOpenLot(L, d)
         THEN ReduceWalkFifo(L, d + 1, remaining, sell_date, sellValue, sellQty)
         ELSE LET lot == L[d]
                  used == Min(lot.net_quantity, remaining)
                  L1 == [L EXCEPT ![d] = ReduceOneLot(lot, d, remaining, sell_date, sellValue, sellQty)]
              IN ReduceWalkFifo(L1, d + 1, remaining - used, sell_date, sellValue, sellQty)

\* the walk of _reduce_lots_lifo over the open lots with trade_date <= d,
\* newest first
RECURSIVE ReduceWalk(_, _, _, _, _, _)
ReduceWalk(L, d, remaining, sell_date, sellValue, sellQty) ==
    IF d < 1 \/ remaining <= 0 THEN L
    ELSE IF ~IsOpenLot(L, d)
         THEN ReduceWalk(L, d - 1, remaining, sell_date, sellValue, sellQty)
         ELSE LET lot == L[d]
                  used == Min(lot.net_quantity, remaining)
                  L1 == [L EXCEPT ![d] = ReduceOneLot(lot, d, remaining, sell_date, sellValue, sellQty)]
              IN ReduceWalk(L1, d - 1, remaining - used, sell_date, sellValue, sellQty)

ReduceLotsFifo(L, sell_qty, sell_date, sellValue, sellQty) ==
    ReduceWalkFifo(L, 1, sell_qty, sell_date, sellValue, sellQty)

\* _reduce_lots_lifo
ReduceLotsLifo(L, sell_qty, sell_date, sellValue, sellQty) ==
    ReduceWalk(L, sell_date, sell_qty, sell_date, sellValue, sellQty)

\* quantity left unmatched by the walk (the warning of _reduce_lots_lifo)
ReduceRemaining(L, sell_qty, sell_date) ==
    Max(0, sell_qty - (ExistingLotQuantity(L, sell_date)
                       + (IF IsOpenLot(L, sell_date) THEN L[sell_date].net_quantity ELSE 0)))

\* _insert_daily_lot: INSERT ... ON DUPLICATE KEY UPDATE on the lot key
InsertDailyLot(L, d, net_quantity, avg_purchase_price, total_cost) ==
    IF HasLot(L, d)
    THEN [L EXCEPT ![d].net_quantity = net_quantity,
                   ![d].avg_purchase_price = avg_purchase_price,
                   ![d].total_cost = total_cost]
    ELSE [L EXCEPT ![d] = [net_quantity |-> net_quantity,
                           avg_purchase_price |-> avg_purchase_price,
                           total_cost |-> total_cost,
                           is_closed |-> FALSE,
                           closed_date |-> 0,
                           realized_pnl |-> 0,
                           holding_days |-> 0,
                           current_price |-> 0]]

\* net buy of a key that subtracts the matched sells a second time
NetBuyNoMatch(buy_qty, sell_qty, existing_qty) == buy_qty - sell_qty

\* net buy of a key: lines 108-122 of construct_daily_lots
NetBuy(buy_qty, sell_qty, existing_qty) ==
    IF existing_qty > 0 /\ sell_qty > 0
    THEN buy_qty - (sell_qty - Min(sell_qty, existing_qty))
    ELSE buy_qty - sell_qty

DayTrades(T, d) == {t \in T : t.trade_date = d}

BuyQty(T, d) == SumQty({t \in DayTrades(T, d) : IsBuy(t.io_tp_nm)})

SellQty(T, d) == SumQty({t \in DayTrades(T, d) : IsSell(t.io_tp_nm)})

BuyValue(T, d) == SumValue({t \in DayTrades(T, d) : IsBuy(t.io_tp_nm)})

SellValue(T, d) == SumValue({t \in DayTrades(T, d) : IsSell(t.io_tp_nm)})

\* body of the loop of construct_daily_lots for the key with trade_date d
ProcessKey(L, T, d) ==
    LET buy_qty == BuyQty(T, d)
        sell_qty == SellQty(T, d)
        existing_qty == ExistingLotQuantity(L, d)
        L1 == IF existing_qty > 0 /\ sell_qty > 0
              THEN ReduceLotsLifo(L, Min(sell_qty, existing_qty), d, SellValue(T, d), sell_qty)
              ELSE L
        net_buy == NetBuy(buy_qty, sell_qty, existing_qty)
    IN IF net_buy > 0
       THEN InsertDailyLot(L1, d, net_buy,
                           RoundDiv(BuyValue(T, d) * Scale, buy_qty),
                           RoundDiv(BuyValue(T, d) * net_buy * Scale, buy_qty))
       ELSE L1

\* the warnings of the LIFO walk alone
KeyWarnsWalkOnly(L, T, d) ==
    LET sell_qty == SellQty(T, d)
        existing_qty == ExistingLotQuantity(L, d)
    IN /\ existing_qty > 0 /\ sell_qty > 0
       /\ ReduceRemaining(L, Min(sell_qty, existing_qty), d) > 0

\* the over-sell warnings printed while processing the key
KeyWarns(L, T, d) ==
    LET buy_qty == BuyQty(T, d)
        sell_qty == SellQty(T, d)
        existing_qty == ExistingLotQuantity(L, d)
    IN \/ existing_qty > 0 /\ sell_qty > 0
          /\ ReduceRemaining(L, Min(sell_qty, existing_qty), d) > 0
       \/ NetBuy(buy_qty, sell_qty, existing_qty) < 0 /\ existing_qty = 0

\* next key of the grouped trades after trade_date c (0 = none left)
NextKey(T, c) ==
    IF \E t \in T : t.trade_date > c
    THEN CHOOSE d \in Dates : /\ d > c
                              /\ DayTrades(T, d) # {}
                              /\ \A e \in Dates : (e > c /\ e < d) => DayTrades(T, e) = {}
    ELSE 0

\* ------------------------------------------------------------------------
\* Properties of the lot ledger
\* ------------------------------------------------------------------------
OpenQty(L) == ExistingLotQuantity(L, MaxDate + 1)

RECURSIVE CumNet(_, _)
CumNet(T, d) == IF d < 1 THEN 0 ELSE BuyQty(T, d) - SellQty(T, d) + CumNet(T, d - 1)

\* no trade date up to d sold more than the open lots plus that day's buys
RECURSIVE NoOversell(_, _)
NoOversell(T, d) == IF d < 1 THEN TRUE ELSE CumNet(T, d) >= 0 /\ NoOversell(T, d - 1)

\* C3 (as stated): in a run from an empty lot table, after each processed
\* trade date the open lots of the group total cumulative buys minus
\* cumulative sells up to that date.
C3_LotConservation ==
    (lotFresh /\ lotCursor > 0) => OpenQty(lots) = CumNet(trades, lotCursor)

\* C3 (amended): in a run from an empty lot table each processed trade date
\* changes the open total to max(0, previous total + buys - sells) of that
\* date, and the total equals cumulative buys minus cumulative sells as long
\* as no date so far sold more than was held.
C3_LotConservationClamped ==
    (lotFresh /\ lotCursor > 0) =>
        /\ OpenQty(lots) = Max(0, OpenQty(prevLots) + BuyQty(trades, lotCursor)
                                                     - SellQty(trades, lotCursor))
        /\ NoOversell(trades, lotCursor) => OpenQty(lots) = CumNet(trades, lotCursor)

C3_Witness ==
    /\ lotFresh /\ lotPc = "running" /\ lotCursor > 1
    /\ SellQty(trades, lotCursor) > 0 /\ BuyQty(trades, lotCursor) > 0
    /\ OpenQty(prevLots) > SellQty(trades, lotCursor)
    /\ OpenQty(lots) = CumNet(trades, lotCursor)

\* C4: a sell consumes the open lots of the group newest open date first: an
\* older lot is reduced only when every newer open lot has been closed, and
\* in a run from an empty table the lots give up exactly min(sell, open) in
\* total, so a sell of D3's quantity closes D3 and leaves D1 and D2 as they were.
C4_LifoOrder ==
    lotCursor > 0 =>
        /\ \A i, j \in Dates :
              (i < j /\ j < lotCursor /\ IsOpenLot(prevLots, i) /\ IsOpenLot(prevLots, j)
                 /\ lots[i].net_quantity < prevLots[i].net_quantity)
              => (lots[j].is_closed /\ lots[j].net_quantity = 0)
        /\ lotFresh =>
              OpenQty(prevLots) - ExistingLotQuantity(lots, lotCursor)
                  = Min(SellQty(trades, lotCursor), OpenQty(prevLots))

\* three open lots D1 < D2 < D3, a later sell larger than D3 closed D3 and
\* reduced D2 while D1 kept its quantity
C4_Witness ==
    /\ lotFresh /\ lotCursor = 4
    /\ IsOpenLot(prevLots, 1) /\ IsOpenLot(prevLots, 2) /\ IsOpenLot(prevLots, 3)
    /\ lots[3].is_closed
    /\ IsOpenLot(lots, 2) /\ lots[2].net_quantity < prevLots[2].net_quantity
    /\ lots[1] = prevLots[1]

\* C5: a second construct_daily_lots over the same trades leaves the lot
\* table as the first run from the empty table produced it.
C5_RerunIdentical ==
    (lotPc = "idle" /\ baseline # NoBaseline) => lots = baseline.lots

\* C37: in every lot table, during a first run and during a run over dates
\* that already produced lots, a lot is flagged closed exactly when its net
\* quantity is 0.
C37_ClosedIffEmpty ==
    \A d \in Dates : HasLot(lots, d) => (lots[d].is_closed <=> lots[d].net_quantity = 0)

\* C17: a trade date whose sells exceed its buys while the group has no open
\* lot before it leaves the lot table as it was (no lot is created, none has
\* a negative quantity), the run goes on, and the over-sell warning is
\* printed.
C17_SellWithoutLots ==
    (/\ lotCursor > 0
     /\ ExistingLotQuantity(prevLots, lotCursor) = 0
     /\ SellQty(trades, lotCursor) > BuyQty(trades, lotCursor))
    => /\ lots = prevLots
       /\ lotWarned
       /\ \A d \in Dates : HasLot(lots, d) => lots[d].net_quantity >= 0

\* a sell-only trade date was processed after the lots of the group had been
\* closed by an earlier sell
C17_Witness ==
    /\ lotCursor > 2
    /\ BuyQty(trades, lotCursor) = 0
    /\ SellQty(trades, lotCursor) > 0
    /\ ExistingLotQuantity(prevLots, lotCursor) = 0
    /\ \E d \in Dates : HasLot(prevLots, d) /\ prevLots[d].is_closed
    /\ lotWarned
    /\ lots = prevLots

\* the stored cost of a lot against stored average times quantity, in units
\* of 1/Scale
CostGap(lot) ==
    LET gap == lot.total_cost - lot.avg_purchase_price * lot.net_quantity
    IN IF gap < 0 THEN -gap ELSE gap

\* the last processed key has reduced the open lot of date d and left it open
PartlyReduced(d) ==
    /\ lotCursor > d
    /\ IsOpenLot(prevLots, d) /\ IsOpenLot(lots, d)
    /\ lots[d].net_quantity < prevLots[d].net_quantity

\* C22 (as stated): every open lot has total_cost equal to
\* avg_purchase_price * net_quantity after every lot creation, upsert and
\* partial LIFO reduction.
C22_CostIsAvgTimesQty ==
    \A d \in Dates : IsOpenLot(lots, d) => CostGap(lots[d]) = 0

\* C22 (amended): a partial LIFO reduction leaves total_cost equal to the
\* stored avg_purchase_price times the new net_quantity; after a creation or
\* an upsert total_cost and the average are each rounded to the money column
\* on their own, and total_cost is within half a column unit per share
\* (plus the rounding of the cost itself) of average times quantity.
C22_CostIsAvgTimesQtyRounded ==
    \A d \in Dates :
        IsOpenLot(lots, d) =>
            /\ 2 * CostGap(lots[d]) <= lots[d].net_quantity + 1
            /\ PartlyReduced(d) => CostGap(lots[d]) = 0

\* a key created a lot whose average is not a whole number of column units
\* (cost and average times quantity differ) and a later key reduced an older
\* lot in part
C22_Witness ==
    /\ \E d \in Dates : IsOpenLot(lots, d) /\ CostGap(lots[d]) > 0
    /\ \E d \in Dates : PartlyReduced(d) /\ CostGap(lots[d]) = 0

\* sync_trade_history_from_kis inserts a trade row (the store is append-only)
SyncTrade(t) ==
    /\ UNCHANGED <<histVars, snapVars, throttleVars, metricVars, iterVars, syncVars, loopVars, mergeVars, sizeVars, cycleVars>>
    /\ lotPc = "idle"
    /\ baseline = NoBaseline
    /\ t \notin trades
    /\ Cardinality(trades) < MaxTrades
    /\ trades' = trades \cup {t}
    /\ UNCHANGED <<lots, prevLots, lotPc, lotCursor, lotFresh, lotWarned, baseline>>

\* view_portfolio.rebuild_lots: DELETE FROM daily_lots, then construct_daily_lots
RebuildStart ==
    /\ UNCHANGED <<histVars, snapVars, throttleVars, metricVars, iterVars, syncVars, loopVars, mergeVars, sizeVars, cycleVars>>
    /\ lotPc = "idle"
    /\ trades # {}
    /\ baseline = NoBaseline
    /\ lots' = EmptyLots
    /\ prevLots' = EmptyLots
    /\ lotPc' = "running"
    /\ lotCursor' = 0
    /\ lotFresh' = TRUE
    /\ lotWarned' = FALSE
    /\ UNCHANGED <<trades, baseline>>

\* daily_sync step 3: construct_daily_lots(conn) over the existing table
DailySyncStart ==
    /\ UNCHANGED <<histVars, snapVars, throttleVars, metricVars, iterVars, syncVars, loopVars, mergeVars, sizeVars, cycleVars>>
    /\ lotPc = "idle"
    /\ trades # {}
    /\ baseline # NoBaseline
    /\ lotFresh
    /\ prevLots' = lots
    /\ lotPc' = "running"
    /\ lotCursor' = 0
    /\ lotFresh' = FALSE
    /\ lotWarned' = FALSE
    /\ UNCHANGED <<trades, lots, baseline>>

\* one iteration of "for (...), group in grouped.items()"
ProcessGroup ==
    /\ UNCHANGED <<histVars, snapVars, throttleVars, metricVars, iterVars, syncVars, loopVars, mergeVars, sizeVars, cycleVars>>
    /\ lotPc = "running"
    /\ NextKey(trades, lotCursor) # 0
    /\ LET d == NextKey(trades, lotCursor)
       IN /\ prevLots' = lots
          /\ lots' = ProcessKey(lots, trades, d)
          /\ lotWarned' = KeyWarns(lots, trades, d)
          /\ lotCursor' = d
    /\ UNCHANGED <<trades, lotPc, lotFresh, baseline>>

\* end of the loop: conn.commit()
FinishLots ==
    /\ UNCHANGED <<histVars, snapVars, throttleVars, metricVars, iterVars, syncVars, loopVars, mergeVars, sizeVars, cycleVars>>
    /\ lotPc = "running"
    /\ NextKey(trades, lotCursor) = 0
    /\ lotPc' = "idle"
    /\ baseline' = IF lotFresh THEN [trades |-> trades, lots |-> lots] ELSE baseline
    /\ UNCHANGED <<trades, lots, prevLots, lotCursor, lotFresh, lotWarned>>

LotNext ==
    \/ \E t \in TradeUniverse : SyncTrade(t)
    \/ RebuildStart
    \/ DailySyncStart
    \/ ProcessGroup
    \/ FinishLots


\* ------------------------------------------------------------------------
\* Part 2: monitoring loop, trigger ledger and order coordinator
\* (auto_trade.py, services/monitor_service.py, services/order_service.py,
\* services/kis_service.py)
\*
\* Environment assumptions of this part: writes of the local trigger and
\* position files succeed; the quote used by execute_buy / execute_sell is
\* the quote of the price cache; the clock, the quotes, the broker and the
\* store change between two steps of the loop.
\* ------------------------------------------------------------------------
\* The hours between the first minute and the last five minutes of a session
\* run the breakout pass and the stop-loss sweep only, which the first minute
\* runs as well; they are not a phase of their own.  The holdings table keeps
\* the latest row of each symbol.
\*
\* ET trading days, orders accepted by the broker, and buys made by hand
MaxDay == 1
MaxOrders == 2
MaxManual == 1

Symbols == {"AAA"}

\* watchlist.csv: ticker order, target_price, max_units
Watchlist == <<"AAA">>

TargetPrice == 10000

MaxUnits == 1

\* quotes in cents
Prices == {9300, 10000, 10600}

\* TradingSettings.STOP_LOSS_PCT
StopLossPct == 7

\* account value in cents seen by get_total_assets; 5% of it is one unit
AccountValue == 400000

Phases == <<"closed", "open", "close">>

\* is_market_open: 09:30 <= t < 16:00
IsMarketOpen(ph) == ph \in {"open", "close"}

\* is_market_open_time: first minute after the open
IsMarketOpenTime(ph) == ph = "open"

\* is_near_market_close(5): 0 < minutes until close <= 5
IsNearMarketClose(ph) == ph = "close"

NoTrig == [absent |-> TRUE]
NoPos == [absent |-> TRUE]
NoHold == [absent |-> TRUE]
NoFile == [absent |-> TRUE]
NoEval == [absent |-> TRUE]
NoPrice == [s \in Symbols |-> 0]

EmptyTriggers == [s \in Symbols |-> NoTrig]

HasTrig(T, s) == T[s] # NoTrig

\* daily_triggers.get(symbol, {}).get("trigger_count", 0)
TriggerCount(T, s) == IF HasTrig(T, s) THEN T[s].trigger_count ELSE 0

OrderIdx == 1..Len(orders)

\* rows of account_trade_history: the synced orders
DbRows(side) == {i \in dbSynced : orders[i].side = side}

\* first row of a symbol in ord_tm order
FirstRow(rows, s) == CHOOSE i \in rows : orders[i].sym = s /\ \A j \in rows : orders[j].sym = s => i <= j

\* a file load that takes the records of a file of any date
LoadTriggersFromJsonAnyDate(T, file, today_et) ==
    IF file # NoFile
    THEN [s \in Symbols |-> IF ~HasTrig(T, s) THEN file.triggers[s] ELSE T[s]]
    ELSE T

\* _load_triggers_from_json: only a file of today's ET date contributes, and
\* only symbols not yet in the map
LoadTriggersFromJson(T, file, today_et) ==
    IF file # NoFile /\ file.date = today_et
    THEN [s \in Symbols |-> IF ~HasTrig(T, s) THEN file.triggers[s] ELSE T[s]]
    ELSE T

\* line 180: trigger_count = max(existing_count, info["count"])
MergeCount(existing_count, db_count) == Max(existing_count, db_count)

\* a store merge that drops the record of a symbol sold in the window
\* instead of marking it
LoadTodayTradesFromDbDropSold(T, buys, sells, dbOk) ==
    IF ~dbOk THEN T
    ELSE LET sold_symbols == {orders[i].sym : i \in sells}
             bought == {orders[i].sym : i \in buys}
             count(s) == Cardinality({i \in buys : orders[i].sym = s})
             merged == [s \in Symbols |->
                 IF s \notin bought THEN T[s]
                 ELSE IF ~HasTrig(T, s)
                      THEN [entry_type |-> "db",
                            entry_price |-> orders[FirstRow(buys, s)].price,
                            trigger_count |-> count(s),
                            sold |-> s \in sold_symbols]
                      ELSE [T[s] EXCEPT !.trigger_count = MergeCount(T[s].trigger_count, count(s))]]
         IN [s \in Symbols |-> IF s \in sold_symbols THEN NoTrig ELSE merged[s]]

\* _load_today_trades_from_db over the buy and sell rows of the last two days;
\* dbOk = FALSE is the except branch (map left as it is)
LoadTodayTradesFromDb(T, buys, sells, dbOk) ==
    IF ~dbOk THEN T
    ELSE LET sold_symbols == {orders[i].sym : i \in sells}
             bought == {orders[i].sym : i \in buys}
             count(s) == Cardinality({i \in buys : orders[i].sym = s})
             merged == [s \in Symbols |->
                 IF s \notin bought THEN T[s]
                 ELSE IF ~HasTrig(T, s)
                      THEN [entry_type |-> "db",
                            entry_price |-> orders[FirstRow(buys, s)].price,
                            trigger_count |-> count(s),
                            sold |-> s \in sold_symbols]
                      ELSE [T[s] EXCEPT !.trigger_count = MergeCount(T[s].trigger_count, count(s))]]
         IN [s \in Symbols |->
                IF s \in sold_symbols /\ HasTrig(merged, s)
                THEN [merged[s] EXCEPT !.sold = TRUE]
                ELSE merged[s]]

\* a broker merge that writes its record over the record of the map
MergeApiBuysOverwrite(T, api_buys) ==
    [s \in Symbols |->
        IF s \in api_buys
        THEN [entry_type |-> "api", entry_price |-> 0, trigger_count |-> 1, sold |-> FALSE]
        ELSE T[s]]

\* _merge_api_buys_to_triggers: a record only for symbols absent from the map
MergeApiBuysToTriggers(T, api_buys) ==
    [s \in Symbols |->
        IF s \in api_buys /\ ~HasTrig(T, s)
        THEN [entry_type |-> "api", entry_price |-> 0, trigger_count |-> 1, sold |-> FALSE]
        ELSE T[s]]

\* rows of the last two ET days, as queried by _load_today_trades_from_db
RecentRows(side, today_et) == {i \in DbRows(side) : orders[i].day >= today_et - 1}

\* a load that keeps the map of the previous load
ClearTriggersKeep(T) == T

\* line 88 of _load_daily_triggers: self.daily_triggers = {}
ClearTriggers(T) == EmptyTriggers

\* _load_daily_triggers: reset, then file, then store
LoadDailyTriggers(T, file, today_et, dbOk) ==
    LoadTodayTradesFromDb(LoadTriggersFromJson(ClearTriggers(T), file, today_et),
                          RecentRows("buy", today_et), RecentRows("sell", today_et), dbOk)

\* get_trade_history(last two days, buys, executed only): symbols of the
\* filled buy orders
BrokerRecentBuys(today_et) ==
    {orders[i].sym : i \in {j \in 1..Len(orders) : /\ orders[j].side = "buy"
                                             /\ orders[j].filled
                                             /\ orders[j].day >= today_et - 1}}

\* _today_api_buys = None
NoCache == [loaded |-> FALSE, buys |-> {}]

Cached(buys) == [loaded |-> TRUE, buys |-> buys]

\* _load_today_api_buys: the cached set, or the broker query (empty on failure)
LoadTodayApiBuys(cache, today_et, apiOk) ==
    IF cache.loaded THEN cache.buys
    ELSE IF apiOk THEN BrokerRecentBuys(today_et) ELSE {}


\* ---- broker account, derived from the accepted orders ----
RECURSIVE FilledQty(_, _, _)
FilledQty(s, side, n) ==
    IF n = 0 THEN 0
    ELSE (IF orders[n].sym = s /\ orders[n].side = side /\ orders[n].filled
          THEN orders[n].qty ELSE 0) + FilledQty(s, side, n - 1)

RECURSIVE FilledBuyValue(_, _)
FilledBuyValue(s, n) ==
    IF n = 0 THEN 0
    ELSE (IF orders[n].sym = s /\ orders[n].side = "buy" /\ orders[n].filled
          THEN orders[n].qty * orders[n].price ELSE 0) + FilledBuyValue(s, n - 1)

\* shares held at the broker (ovrs_cblc_qty of the holdings feed)
BrokerQty(s) == FilledQty(s, "buy", Len(orders)) - FilledQty(s, "sell", Len(orders))

\* average purchase price at the broker
BrokerAvg(s) ==
    IF FilledQty(s, "buy", Len(orders)) = 0 THEN 0
    ELSE RoundDiv(FilledBuyValue(s, Len(orders)), FilledQty(s, "buy", Len(orders)))

\* ---- OrderService ----
IsOpenPos(P, s) == P[s] # NoPos /\ P[s].status = "open"

\* ---- binary64 arithmetic of check_stop_loss and the price buffers ----
\* The prices of the program are Python floats.  A natural below 2^60 is
\* kept as three limbs of 20 bits <<high, middle, low>>, a positive double
\* as [m, e] with 2^52 <= m < 2^53 and value m * 2^e; every operation
\* rounds to nearest, ties to even, as the hardware does.
Limb == 1048576

Big(h, m, l) ==
    LET m1 == m + l \div Limb
    IN <<h + m1 \div Limb, m1 % Limb, l % Limb>>

BigOf(n) == Big(0, 0, n)

BigZero == <<0, 0, 0>>

Two52 == <<4096, 0, 0>>

Two53 == <<8192, 0, 0>>

Two54 == <<16384, 0, 0>>

Two59 == <<524288, 0, 0>>

BigGeq(x, y) ==
    \/ x[1] > y[1]
    \/ x[1] = y[1] /\ x[2] > y[2]
    \/ x[1] = y[1] /\ x[2] = y[2] /\ x[3] >= y[3]

\* x - y for x >= y
BigSub(x, y) ==
    LET bl == IF x[3] < y[3] THEN 1 ELSE 0
        bm == IF x[2] - bl < y[2] THEN 1 ELSE 0
    IN <<x[1] - y[1] - bm, x[2] - bl - y[2] + bm * Limb, x[3] - y[3] + bl * Limb>>

BigDbl(x) == Big(2 * x[1], 2 * x[2], 2 * x[3])

BigHalf(x) ==
    <<x[1] \div 2, (x[2] + (x[1] % 2) * Limb) \div 2, (x[3] + (x[2] % 2) * Limb) \div 2>>

BigOdd(x) == x[3] % 2 = 1

BigInc(x) == Big(x[1], x[2], x[3] + 1)

BigMul(x, k) == Big(k * x[1], k * x[2], k * x[3])

\* x * 2^k for the least k that brings x > 0 to 2^53 or more (by 20 bits
\* and by 10 bits at a time while that stays below 2^53)
RECURSIVE UpTo53(_, _)
UpTo53(x, k) ==
    IF BigGeq(x, Two53) THEN [x |-> x, k |-> k]
    ELSE IF x[1] = 0 /\ x[2] < 4096 THEN UpTo53(<<x[2], x[3], 0>>, k + 20)
    ELSE IF x[1] < 4 THEN UpTo53(BigMul(x, 1024), k + 10)
    ELSE UpTo53(BigDbl(x), k + 1)

\* x \div 2^k for the least k that brings x below 2^54; sticky tells that a
\* dropped bit was 1
RECURSIVE DownTo54(_, _, _)
DownTo54(x, sticky, k) ==
    IF ~BigGeq(x, Two54) THEN [x |-> x, sticky |-> sticky, k |-> k]
    ELSE DownTo54(BigHalf(x), sticky \/ BigOdd(x), k + 1)

\* x \div 2^n with the sticky bit (a limb at a time while n allows)
RECURSIVE ShiftDown(_, _, _)
ShiftDown(x, sticky, n) ==
    IF n = 0 THEN [x |-> x, sticky |-> sticky]
    ELSE IF n >= 20 THEN ShiftDown(Big(0, x[1], x[2]), sticky \/ x[3] # 0, n - 20)
    ELSE ShiftDown(BigHalf(x), sticky \/ BigOdd(x), n - 1)

\* the double nearest to x * 2^e (+ a fraction of the last bit when sticky),
\* for 2^53 <= x < 2^54: the last bit of x is the guard bit
RoundEven(x, sticky, e) ==
    LET m == BigHalf(x)
        up == BigOdd(x) /\ (sticky \/ BigOdd(m))
        m1 == IF up THEN BigInc(m) ELSE m
    IN IF m1 = Two53 THEN [m |-> Two52, e |-> e + 2] ELSE [m |-> m1, e |-> e + 1]

\* the double nearest to x * 2^e for x > 0
RoundBig(x, sticky, e) ==
    IF BigGeq(x, Two54)
    THEN LET d == DownTo54(x, sticky, 0) IN RoundEven(d.x, d.sticky, e + d.k)
    ELSE LET u == UpTo53(x, 0) IN RoundEven(u.x, sticky, e - u.k)

\* long division: quotient bits until the quotient has 54 bits
RECURSIVE DivLoop(_, _, _, _)
DivLoop(Q, R, Y, n) ==
    IF BigGeq(Q, Two53) THEN [Q |-> Q, R |-> R, n |-> n]
    ELSE LET R2 == BigDbl(R)
         IN IF BigGeq(R2, Y)
            THEN DivLoop(BigInc(BigDbl(Q)), BigSub(R2, Y), Y, n + 1)
            ELSE DivLoop(BigDbl(Q), R2, Y, n + 1)

\* the double nearest to a / b for naturals 0 < a, b < 2^53
FDiv(a, b) ==
    LET na == UpTo53(a, 0)
        nb == UpTo53(b, 0)
        r == IF BigGeq(na.x, nb.x)
             THEN DivLoop(BigOf(1), BigSub(na.x, nb.x), nb.x, 0)
             ELSE DivLoop(BigZero, na.x, nb.x, 0)
    IN RoundEven(r.Q, r.R # BigZero, nb.k - na.k - r.n)

\* float of a price given in cents (the nearest double to cents / 100)
FloatOfCents(c) == FDiv(BigOf(c), BigOf(100))

FloatOfInt(n) == FDiv(BigOf(n), BigOf(1))

\* x / y for doubles
FQuot(x, y) ==
    LET q == FDiv(x.m, y.m) IN [m |-> q.m, e |-> q.e + x.e - y.e]

\* 1 - q for a double q < 1, as a double
FOneMinus(q) ==
    IF q.e >= -59
    THEN LET k == (-53) - q.e
             one == ShiftDown(Two59, FALSE, 6 - k).x
         IN RoundBig(BigSub(one, q.m), FALSE, q.e)
    ELSE LET d == ShiftDown(q.m, FALSE, (-59) - q.e)
             x == IF d.sticky THEN BigSub(BigSub(Two59, d.x), BigOf(1)) ELSE BigSub(Two59, d.x)
         IN RoundBig(x, d.sticky, -59)

\* x * k for a double x and a natural k <= 100
FTimes(x, k) == RoundBig(BigMul(x.m, k), FALSE, x.e)

FGeq(x, y) == x.e > y.e \/ (x.e = y.e /\ BigGeq(x.m, y.m))

BigAdd(x, y) == Big(x[1] + y[1], x[2] + y[2], x[3] + y[3])

\* x \div 128
BigShr7(x) ==
    <<x[1] \div 128, (x[2] + (x[1] % 128) * Limb) \div 128, (x[3] + (x[2] % 128) * Limb) \div 128>>

\* floor(x * y / 2^(7 * n)) and whether bits were dropped, for x, y < 2^53:
\* y is taken seven bits at a time from the low end
RECURSIVE MulHigh(_, _, _, _, _)
MulHigh(x, y, acc, sticky, n) ==
    LET part == BigAdd(acc, BigMul(x, y[3] % 128))
        rest == BigShr7(y)
    IN IF rest = BigZero THEN [x |-> part, sticky |-> sticky, n |-> n]
       ELSE IF part[3] % 128 = 0
       THEN MulHigh(x, rest, BigShr7(part), sticky, n + 1)
       ELSE MulHigh(x, rest, BigShr7(part), TRUE, n + 1)

\* x * y for doubles
FProd(x, y) ==
    LET p == MulHigh(x.m, y.m, BigZero, FALSE, 0)
    IN RoundBig(p.x, p.sticky, x.e + y.e + 7 * p.n)

\* 1 + t and 1 - t for a double t < 1
FOnePlus(t) ==
    IF t.e >= -59
    THEN RoundBig(BigAdd(ShiftDown(Two59, FALSE, 59 + t.e).x, t.m), FALSE, t.e)
    ELSE LET d == ShiftDown(t.m, FALSE, (-59) - t.e)
         IN RoundBig(BigAdd(Two59, d.x), d.sticky, -59)

\* round(x, 2) of a double below 2^30, in cents: the decimal nearest to the
\* exact value of x, ties to even
RoundToCents(x) ==
    LET d == ShiftDown(BigMul(x.m, 100), FALSE, (-x.e) - 1)
        q == BigHalf(d.x)
        up == BigOdd(d.x) /\ (d.sticky \/ BigOdd(q))
    IN q[2] * Limb + q[3] + (IF up THEN 1 ELSE 0)

\* buffer_pct / 100 for buffer_pct = 0.5
BufferRate == FDiv(BigOf(5), BigOf(1000))

BufferUp == FOnePlus(BufferRate)

BufferDown == FOneMinus(BufferRate)

\* round(f * (1 + buffer_pct / 100), 2) and round(f * (1 - buffer_pct / 100), 2)
\* of a double f, in cents
BufferEntry(f, up, down) ==
    [add |-> RoundToCents(FProd(f, up)), sub |-> RoundToCents(FProd(f, down))]

\* the buffered order prices of the quotes, computed once
BufferPrices == Prices \cup {TargetPrice}

\* the quotes as doubles
PriceFloat == [p \in BufferPrices |-> FloatOfCents(p)]

BufferMemo == [p \in BufferPrices |-> BufferEntry(PriceFloat[p], BufferUp, BufferDown)]

\* add_price_buffer: round(price * (1 + buffer_pct / 100), 2), in cents; B is
\* the table of the float results (BufferMemo)
AddPriceBuffer(B, p) == B[p].add

\* subtract_price_buffer: round(price * (1 - buffer_pct / 100), 2), in cents
SubtractPriceBuffer(B, p) == B[p].sub

\* ((current / entry) - 1) * 100 <= -pct for doubles
ChangeAtMostF(current, entry, pct) ==
    LET q == FQuot(current, entry)
    IN IF q.e >= -52 THEN FALSE
       ELSE FGeq(FTimes(FOneMinus(q), 100), pct)

\* the same for prices in cents and a whole percentage
ChangeAtMost(current, entry, pct) ==
    ChangeAtMostF(FloatOfCents(current), FloatOfCents(entry), FloatOfInt(pct))

\* prices of the orders of the trading loop: a buy by hand at the target,
\* a buy of the program at a quote plus the buffer
OrderPrices == {TargetPrice} \cup {AddPriceBuffer(BufferMemo, p) : p \in Prices}

RECURSIVE PriceSums(_)
PriceSums(n) ==
    IF n = 0 THEN {0} ELSE {t + b : t \in PriceSums(n - 1), b \in OrderPrices}

\* entry prices of the trading loop, averages of order prices within the
\* rounding of the repeated average; the comparison is computed once for
\* them and for the quotes
MemoEntries ==
    UNION {{RoundDiv(t, n) + dv : t \in PriceSums(n), dv \in (-2)..2} : n \in 1..MaxOrders}

\* entry prices of the drawn position cache of Part 4 and the quotes its
\* stop-loss checks are given: at, one cent above and one cent below
\* entry * (1 - StopLossPct / 100) where that is a whole cent, and around it
\* where it is not
SizeEntryPrices == {TargetPrice, AddPriceBuffer(BufferMemo, TargetPrice)}

StopQuotes == {9299, 9300, 9301, 9346, 9347, 10000}

\* entry prices after a buy on the position cache of Part 11: two shares at
\* the buffered target averaged with one share at an order price
StaleEntryPrices ==
    {RoundDiv(2 * AddPriceBuffer(BufferMemo, TargetPrice) + p, 3) : p \in OrderPrices}

\* <<entry, quote>> pairs for which the comparison is computed once
MemoPairs ==
    {<<a, b>> : a \in MemoEntries \cup StaleEntryPrices, b \in Prices}
        \cup {<<a, b>> : a \in SizeEntryPrices, b \in StopQuotes}

\* the prices of the pairs and their doubles
MemoCents == {pr[1] : pr \in MemoPairs} \cup {pr[2] : pr \in MemoPairs}

FloatMemo == [c \in MemoCents |-> FloatOfCents(c)]

StopLossPctFloat == FloatOfInt(StopLossPct)

\* the comparison for every pair, over the doubles F of their prices
StopLossOver(F, pct) == [pr \in MemoPairs |-> ChangeAtMostF(F[pr[2]], F[pr[1]], pct)]

StopLossMemo == StopLossOver(FloatMemo, StopLossPctFloat)

\* the results of the float code the trading loop uses, computed once
FloatTables == [buffer |-> BufferMemo, stop |-> StopLossMemo]

\* check_stop_loss: ((current / entry) - 1) * 100 <= -stop_loss_pct; T is the
\* table of the comparisons (StopLossMemo)
CheckStopLoss(T, P, s, current_price) ==
    /\ P[s] # NoPos
    /\ P[s].status = "open"
    /\ P[s].entry_price > 0
    /\ T[<<P[s].entry_price, current_price>>]

\* calculate_half_unit_amount / calculate_shares: half a unit (2.5%) of the
\* cash plus the open positions, in whole shares, at least one
PositionValue(P, s) == IF IsOpenPos(P, s) THEN P[s].quantity * P[s].entry_price ELSE 0

RECURSIVE PositionsValue(_, _)
PositionsValue(P, S) ==
    IF S = {} THEN 0
    ELSE LET s == CHOOSE x \in S : TRUE
         IN PositionValue(P, s) + PositionsValue(P, S \ {s})

CalculateShares(P, buy_price) ==
    LET total_capital == AccountValue + PositionsValue(P, Symbols)
    IN Max(RoundDiv(total_capital * 25, buy_price * 1000), 1)

\* lines 348-374 of execute_buy: position cache after an accepted buy
PositionAfterBuy(P, s, shares, buy_price) ==
    IF P[s] = NoPos
    THEN [P EXCEPT ![s] = [status |-> "open", entry_price |-> buy_price, quantity |-> shares]]
    ELSE [P EXCEPT ![s].quantity = P[s].quantity + shares,
                   ![s].entry_price =
                       RoundDiv(P[s].entry_price * P[s].quantity + buy_price * shares,
                                P[s].quantity + shares)]

\* get_sellable_quantity that lets the failure of the holdings feed escape
GetSellableQuantityRaising(s, feedOk) ==
    IF feedOk THEN [raised |-> FALSE, qty |-> BrokerQty(s)]
    ELSE [raised |-> TRUE, qty |-> 0]

\* get_sellable_quantity: the quantity of the first exchange listing the
\* symbol; a failing exchange is skipped, nothing found gives 0
GetSellableQuantity(s, feedOk) ==
    IF feedOk THEN [raised |-> FALSE, qty |-> BrokerQty(s)]
    ELSE [raised |-> FALSE, qty |-> 0]

\* lines 398-419 of execute_sell: quantity to sell (0 = return None)
SellQuantity(P, s, feedOk) ==
    IF P[s] = NoPos THEN 0
    ELSE IF P[s].quantity <= 0 THEN 0
    ELSE LET r == GetSellableQuantity(s, feedOk)
         IN IF r.raised THEN P[s].quantity
            ELSE IF r.qty <= 0 THEN 0
            ELSE IF r.qty < P[s].quantity THEN r.qty
            ELSE P[s].quantity

\* lines 455-461 of execute_sell: the position is closed
PositionAfterSell(P, s) == [P EXCEPT ![s].status = "closed"]

\* ---- position sizing ----
NoLotCost == [s \in Symbols |-> 0]

NoUnits == [absent |-> TRUE]

NoStop == [absent |-> TRUE]

\* pur_amt of the latest holdings row of the symbol (0 = no row or NULL)
PurAmt(H, s) == IF H[s] = NoHold THEN 0 ELSE H[s].qty * H[s].avg

\* lines 674-719 of get_current_units_held: the purchase cost and where it
\* is taken from: the holdings row, else the lot rows, else the position
\* cache; a failing query yields nothing
PurchaseCostOf(H, lc, P, s, holdOk, lotsOk) ==
    IF holdOk /\ PurAmt(H, s) # 0
    THEN [source |-> "holdings", cost |-> PurAmt(H, s)]
    ELSE IF lotsOk /\ lc[s] # 0
    THEN [source |-> "lots", cost |-> lc[s]]
    ELSE IF IsOpenPos(P, s)
    THEN [source |-> "positions", cost |-> P[s].quantity * P[s].entry_price]
    ELSE [source |-> "none", cost |-> 0]

\* purchase cost seen by the trading loop (no lot rows for the watched
\* symbols in Part 2)
PurchaseCost(P, s, dbOk) == PurchaseCostOf(holdingsDb, NoLotCost, P, s, dbOk, dbOk).cost

\* get_total_assets: the account value (cached or fetched)
TotalAssets == AccountValue

\* current_units >= max_units, with unit_value = total_assets * 0.05
AtMaxUnits(P, s, dbOk, assets) ==
    assets > 0 /\ PurchaseCost(P, s, dbOk) * 20 >= MaxUnits * assets

\* ---- duplicate-buy guards ----
\* has_today_db_buy: count of today's buy rows, or on a store error the
\* presence of the symbol in daily_triggers
HasTodayDbBuy(T, s, today_et, dbOk) ==
    IF dbOk
    THEN \E i \in DbRows("buy") : orders[i].sym = s /\ orders[i].day = today_et
    ELSE HasTrig(T, s)

\* the guards of check_breakout_entry / check_gap_up_entry in their order:
\* unit cap, in-memory trigger count, broker trade log, store
EntryGuards(T, P, s, api_buys, today_et, dbOk, assets) ==
    LET u == ~AtMaxUnits(P, s, dbOk, assets)
        a == u /\ TriggerCount(T, s) < 1
        b == a /\ s \notin api_buys
        c == b /\ ~HasTodayDbBuy(T, s, today_et, dbOk)
    IN [units |-> u, g1 |-> a, g2 |-> b, g3 |-> c, pass |-> c]


\* ---- orders ----
\* an order accepted by the broker
NewOrder(s, side, qty, px, kind, filled) ==
    [sym |-> s, side |-> side, qty |-> qty, price |-> px, kind |-> kind,
     day |-> etDate, filled |-> filled]

EntryKinds == {"gap_up", "breakout"}

CloseKinds == {"pyramid", "close_below_entry"}

\* rows written by sync_trade_history_from_kis: the executed orders
ExecutedOrders(O) == {i \in 1..Len(O) : O[i].filled}

\* ---- sweeps over the position cache ----
SymOrder == <<"AAA">>

\* _get_today_bought_symbols: buy rows whose trade_date is date.today() of
\* the operator's clock; empty on a store error
TodayBoughtSymbols(dbOk) ==
    IF dbOk THEN {orders[i].sym : i \in {j \in DbRows("buy") : orders[j].day = localDate}}
    ELSE {}

TodayBought(T, dbOk) == TodayBoughtSymbols(dbOk) \cup {s \in Symbols : HasTrig(T, s)}

\* Decide with a close logic that re-checks the unit cap before a pyramid
DecideUnitCapped(F, mode, P, s, today_bought) ==
    IF ~IsOpenPos(P, s) THEN "none"
    ELSE IF mode = "stop_loss_intraday"
         THEN (IF s \in today_bought /\ CheckStopLoss(F.stop, P, s, price[s]) THEN "sell" ELSE "none")
    ELSE IF mode = "stop_loss_close"
         THEN (IF s \notin today_bought /\ CheckStopLoss(F.stop, P, s, price[s]) THEN "sell" ELSE "none")
    ELSE IF s \notin today_bought THEN "none"
         ELSE IF price[s] > P[s].entry_price
              THEN (IF AtMaxUnits(P, s, TRUE, TotalAssets) THEN "none" ELSE "buy")
              ELSE "sell"

\* Decide with a close at the entry price taken for a gain
DecideEqualityBuys(F, mode, P, s, today_bought) ==
    IF ~IsOpenPos(P, s) THEN "none"
    ELSE IF mode = "stop_loss_intraday"
         THEN (IF s \in today_bought /\ CheckStopLoss(F.stop, P, s, price[s]) THEN "sell" ELSE "none")
    ELSE IF mode = "stop_loss_close"
         THEN (IF s \notin today_bought /\ CheckStopLoss(F.stop, P, s, price[s]) THEN "sell" ELSE "none")
    ELSE IF s \notin today_bought THEN "none"
         ELSE IF price[s] >= P[s].entry_price THEN "buy" ELSE "sell"

\* what a sweep does with a symbol: "none", "buy" (pyramid) or "sell"; F holds
\* the results of the float code (FloatTables)
Decide(F, mode, P, s, today_bought) ==
    IF ~IsOpenPos(P, s) THEN "none"
    ELSE IF mode = "stop_loss_intraday"
         THEN (IF s \in today_bought /\ CheckStopLoss(F.stop, P, s, price[s]) THEN "sell" ELSE "none")
    ELSE IF mode = "stop_loss_close"
         THEN (IF s \notin today_bought /\ CheckStopLoss(F.stop, P, s, price[s]) THEN "sell" ELSE "none")
    ELSE IF s \notin today_bought THEN "none"
         ELSE IF price[s] > P[s].entry_price THEN "buy" ELSE "sell"

\* a call of client.buy_order / client.sell_order and its outcome
Submission(s, side, qty, kind, ok) ==
    [sym |-> s, side |-> side, qty |-> qty, kind |-> kind, ok |-> ok]

\* SweepOne that closes the position before the sell order is accepted
SweepOneEager(F, mode, P, O, s, today_bought, e) ==
    LET act == Decide(F, mode, P, s, today_bought)
    IN IF act = "buy"
       THEN LET buy_price == AddPriceBuffer(F.buffer, price[s])
                shares == CalculateShares(P, buy_price)
            IN IF e.orderOk
               THEN [P |-> PositionAfterBuy(P, s, shares, buy_price),
                     O |-> Append(O, NewOrder(s, "buy", shares, buy_price, "pyramid", FALSE)),
                     S |-> <<Submission(s, "buy", shares, "pyramid", TRUE)>>]
               ELSE [P |-> P, O |-> O,
                     S |-> <<Submission(s, "buy", shares, "pyramid", FALSE)>>]
       ELSE IF act = "sell"
       THEN LET q == SellQuantity(P, s, e.feedOk)
                sell_price == SubtractPriceBuffer(F.buffer, price[s])
                reason == IF mode = "close" THEN "close_below_entry" ELSE mode
            IN IF q > 0 /\ e.orderOk
               THEN [P |-> PositionAfterSell(P, s),
                     O |-> Append(O, NewOrder(s, "sell", q, sell_price, reason, FALSE)),
                     S |-> <<Submission(s, "sell", q, reason, TRUE)>>]
               ELSE IF q > 0
               THEN [P |-> PositionAfterSell(P, s), O |-> O,
                     S |-> <<Submission(s, "sell", q, reason, FALSE)>>]
               ELSE [P |-> P, O |-> O, S |-> <<>>]
       ELSE [P |-> P, O |-> O, S |-> <<>>]

\* execute_buy for a pyramid / execute_sell for one symbol of a sweep;
\* e = [feedOk, orderOk] is what the broker answers; S is the submission made
SweepOne(F, mode, P, O, s, today_bought, e) ==
    LET act == Decide(F, mode, P, s, today_bought)
    IN IF act = "buy"
       THEN LET buy_price == AddPriceBuffer(F.buffer, price[s])
                shares == CalculateShares(P, buy_price)
            IN IF e.orderOk
               THEN [P |-> PositionAfterBuy(P, s, shares, buy_price),
                     O |-> Append(O, NewOrder(s, "buy", shares, buy_price, "pyramid", FALSE)),
                     S |-> <<Submission(s, "buy", shares, "pyramid", TRUE)>>]
               ELSE [P |-> P, O |-> O,
                     S |-> <<Submission(s, "buy", shares, "pyramid", FALSE)>>]
       ELSE IF act = "sell"
       THEN LET q == SellQuantity(P, s, e.feedOk)
                sell_price == SubtractPriceBuffer(F.buffer, price[s])
                reason == IF mode = "close" THEN "close_below_entry" ELSE mode
            IN IF q > 0 /\ e.orderOk
               THEN [P |-> PositionAfterSell(P, s),
                     O |-> Append(O, NewOrder(s, "sell", q, sell_price, reason, FALSE)),
                     S |-> <<Submission(s, "sell", q, reason, TRUE)>>]
               ELSE IF q > 0
               THEN [P |-> P, O |-> O, S |-> <<Submission(s, "sell", q, reason, FALSE)>>]
               ELSE [P |-> P, O |-> O, S |-> <<>>]
       ELSE [P |-> P, O |-> O, S |-> <<>>]

RECURSIVE Sweep(_, _, _, _, _, _, _)
Sweep(F, mode, k, P, O, today_bought, env) ==
    IF k > Len(SymOrder) THEN [P |-> P, O |-> O, S |-> <<>>]
    ELSE LET r == SweepOne(F, mode, P, O, SymOrder[k], today_bought, env[SymOrder[k]])
             rest == Sweep(F, mode, k + 1, r.P, r.O, today_bought, env)
         IN [P |-> rest.P, O |-> rest.O, S |-> r.S \o rest.S]

SweepEnv == [Symbols -> [feedOk : BOOLEAN, orderOk : BOOLEAN]]

\* broker answers are drawn only for the symbols the sweep acts on
Relevant(F, mode, P, today_bought, env) ==
    \A s \in Symbols :
        LET act == Decide(F, mode, P, s, today_bought)
        IN /\ act = "none" => env[s] = [feedOk |-> TRUE, orderOk |-> TRUE]
           /\ act = "buy" => env[s].feedOk

\* sync_positions_from_db: the position cache rebuilt from the holdings rows
\* of the trading date, or of the most recent snapshot (the store keeps here
\* the latest row of each symbol)
SyncPositionsFromDb(H) ==
    LET held == {s \in Symbols : H[s] # NoHold /\ H[s].qty > 0}
        todays == {s \in held : H[s].date = etDate}
        latest == {s \in held : \A t \in held : H[t].date <= H[s].date}
        rows == IF todays # {} THEN todays ELSE latest
    IN [s \in Symbols |->
          IF s \in rows /\ H[s].avg > 0
          THEN [status |-> "open", entry_price |-> H[s].avg, quantity |-> H[s].qty]
          ELSE NoPos]

\* sync_holdings_from_kis: nothing when the account is empty, else today's
\* snapshot replaced by the broker's holdings
SyncHoldingsFromKis(H) ==
    IF \A s \in Symbols : BrokerQty(s) <= 0 THEN H
    ELSE [s \in Symbols |->
            IF BrokerQty(s) > 0
            THEN [qty |-> BrokerQty(s), avg |-> BrokerAvg(s), date |-> etDate]
            ELSE IF H[s] # NoHold /\ H[s].date = etDate THEN NoHold
            ELSE H[s]]

\* ---- the trading loop ----
\* _save_daily_triggers: the map under today's ET date
SavedFile(T) == [date |-> etDate, triggers |-> T]

Quotes == [Symbols -> Prices]

\* opening quotes: one below and one at the target
OpenQuotes == [Symbols -> {9300, 10000}]

\* state after MonitorService() and the start-up of run_trading_loop on an
\* account with no trade yet: empty ledger, file, store and position cache;
\* the broker trade log has been read once (and is empty)
LoopInit ==
    /\ etDate = 1
    /\ phase = "closed"
    /\ localDate = 1
    /\ last_date = 0
    /\ pc = "top"
    /\ idx = 1
    /\ daily_triggers = EmptyTriggers
    /\ triggerFile = NoFile
    /\ apiBuysCache = Cached({})
    /\ positions = [s \in Symbols |-> NoPos]
    /\ closeSynced = FALSE
    /\ price = NoPrice
    /\ openPx = NoPrice
    /\ orders = <<>>
    /\ dbSynced = {}
    /\ holdingsDb = [s \in Symbols |-> NoHold]
    /\ closeRanDay = 0
    /\ bgSync = FALSE
    /\ lastEval = NoEval
    /\ subLog = <<>>
    /\ resetEt = 0
    /\ current_time = 0
    /\ last_status_time = 0
    /\ tradeStore = <<>>
    /\ lastSync = NoSync
    /\ histPc = "idle"
    /\ page = 0
    /\ all_trades = 0
    /\ tr_cont_next = ""
    /\ histResult = NoResult
    /\ requests = 0
    /\ delivered = 0
    /\ lastOk = TRUE
    /\ histCalls = 0
    /\ newestSnapshot = 0
    /\ now = ThrottleStart
    /\ last_call_time = [c \in Clients |-> 0]
    /\ sleeping = [t \in Threads |-> NoSleep]
    /\ lastRequest = NoRequest
    /\ lastGap = NoGap
    /\ metricLots = <<>>
    /\ cur_prc = NoRow
    /\ metricRuns = 0
    /\ total_assets = 0
    /\ lotCost = NoLotCost
    /\ unitsNow = NoUnits
    /\ stopNow = NoStop
    /\ checkLog = <<>>
    /\ cycleHeld = NoHeld
    /\ mergeLog = <<>>
    /\ firstRun = NoRun
    /\ trades = {}
    /\ lots = EmptyLots
    /\ prevLots = EmptyLots
    /\ lotPc = "idle"
    /\ lotCursor = 0
    /\ lotFresh = TRUE
    /\ lotWarned = FALSE
    /\ baseline = NoBaseline

\* the lot ledger on its own: empty trade and lot tables, the trading loop and
\* the reconciliation stand still
LotInit ==
    /\ trades = {}
    /\ lots = EmptyLots
    /\ prevLots = EmptyLots
    /\ lotPc = "idle"
    /\ lotCursor = 0
    /\ lotFresh = TRUE
    /\ lotWarned = FALSE
    /\ baseline = NoBaseline
    /\ etDate = 1
    /\ phase = "closed"
    /\ localDate = 1
    /\ last_date = 0
    /\ pc = "top"
    /\ idx = 1
    /\ daily_triggers = EmptyTriggers
    /\ triggerFile = NoFile
    /\ apiBuysCache = Cached({})
    /\ positions = [s \in Symbols |-> NoPos]
    /\ closeSynced = FALSE
    /\ price = NoPrice
    /\ openPx = NoPrice
    /\ orders = <<>>
    /\ dbSynced = {}
    /\ holdingsDb = [s \in Symbols |-> NoHold]
    /\ closeRanDay = 0
    /\ bgSync = FALSE
    /\ lastEval = NoEval
    /\ subLog = <<>>
    /\ resetEt = 0
    /\ current_time = 0
    /\ last_status_time = 0
    /\ tradeStore = <<>>
    /\ lastSync = NoSync
    /\ histPc = "idle"
    /\ page = 0
    /\ all_trades = 0
    /\ tr_cont_next = ""
    /\ histResult = NoResult
    /\ requests = 0
    /\ delivered = 0
    /\ lastOk = TRUE
    /\ histCalls = 0
    /\ newestSnapshot = 0
    /\ now = ThrottleStart
    /\ last_call_time = [c \in Clients |-> 0]
    /\ sleeping = [t \in Threads |-> NoSleep]
    /\ lastRequest = NoRequest
    /\ lastGap = NoGap
    /\ metricLots = <<>>
    /\ cur_prc = NoRow
    /\ metricRuns = 0
    /\ total_assets = 0
    /\ lotCost = NoLotCost
    /\ unitsNow = NoUnits
    /\ stopNow = NoStop
    /\ checkLog = <<>>
    /\ cycleHeld = NoHeld
    /\ mergeLog = <<>>
    /\ firstRun = NoRun

\* -- environment --
\* the ET clock advances: the session opens with opening quote o, reaches
\* its last five minutes, closes; the next ET day begins after the close
Tick(o) ==
    /\ UNCHANGED <<histVars, snapVars, throttleVars, metricVars, iterVars, syncVars, lotVars, mergeVars, sizeVars, cycleVars>>
    /\ pc = "top"
    /\ phase = "close" => (etDate < MaxDay /\ localDate >= etDate)
    /\ phase' = CASE phase = "closed" -> "open"
                  [] phase = "open" -> "close"
                  [] OTHER -> "closed"
    /\ etDate' = IF phase = "close" THEN etDate + 1 ELSE etDate
    /\ openPx' = IF phase = "closed" THEN o ELSE NoPrice
    /\ phase # "closed" => o = NoPrice
    /\ phase = "closed" => o # NoPrice
    /\ closeRanDay' = IF phase = "close" THEN 0 ELSE closeRanDay
    /\ UNCHANGED <<localDate, last_date, pc, idx, daily_triggers, triggerFile, apiBuysCache,
                   positions, closeSynced, price, orders, dbSynced, holdingsDb,
                   bgSync, lastEval, subLog, resetEt>>

\* midnight of the operator's clock, at any time of the ET day
LocalMidnight ==
    /\ UNCHANGED <<histVars, snapVars, throttleVars, metricVars, iterVars, syncVars, lotVars, mergeVars, sizeVars, cycleVars>>
    /\ pc = "top"
    /\ localDate <= etDate
    /\ localDate' = localDate + 1
    /\ UNCHANGED <<etDate, phase, last_date, pc, idx, daily_triggers, triggerFile, apiBuysCache,
                   positions, closeSynced, price, openPx, orders, dbSynced, holdingsDb,
                   closeRanDay, bgSync, lastEval, subLog, resetEt>>

\* the exchange executes an accepted order of the current day; a sale needs
\* the shares
Fill(i) ==
    /\ UNCHANGED <<histVars, snapVars, throttleVars, metricVars, iterVars, syncVars, lotVars, mergeVars, sizeVars, cycleVars>>
    /\ pc = "top"
    /\ IsMarketOpen(phase)
    /\ i \in OrderIdx
    /\ ~orders[i].filled
    /\ orders[i].day = etDate
    /\ orders[i].side = "sell" => orders[i].qty <= BrokerQty(orders[i].sym)
    /\ orders' = [orders EXCEPT ![i].filled = TRUE]
    /\ UNCHANGED <<etDate, phase, localDate, last_date, pc, idx, daily_triggers, triggerFile,
                   apiBuysCache, positions, closeSynced, price, openPx, dbSynced, holdingsDb,
                   closeRanDay, bgSync, lastEval, subLog, resetEt>>

\* the account owner buys one share by hand during the session, executed
\* at once at the target price
ManualBuy(s) ==
    /\ UNCHANGED <<histVars, snapVars, throttleVars, metricVars, iterVars, syncVars, lotVars, mergeVars, sizeVars, cycleVars>>
    /\ pc = "top"
    /\ IsMarketOpen(phase)
    /\ Len(orders) < MaxOrders
    /\ Cardinality({i \in OrderIdx : orders[i].kind = "manual"}) < MaxManual
    /\ orders' = Append(orders, NewOrder(s, "buy", 1, TargetPrice, "manual", TRUE))
    /\ UNCHANGED <<etDate, phase, localDate, last_date, pc, idx, daily_triggers, triggerFile,
                   apiBuysCache, positions, closeSynced, price, openPx, dbSynced, holdingsDb,
                   closeRanDay, bgSync, lastEval, subLog, resetEt>>

\* a re-sync whose failure is raised in the main loop and ends it
BackgroundSyncRaising(ok) ==
    /\ UNCHANGED <<histVars, snapVars, throttleVars, metricVars, iterVars, syncVars, lotVars, mergeVars, sizeVars, cycleVars>>
    /\ pc = "top"
    /\ bgSync
    /\ bgSync' = FALSE
    /\ dbSynced' = IF ok THEN ExecutedOrders(orders) ELSE dbSynced
    /\ pc' = IF ok THEN pc ELSE "crashed"
    /\ UNCHANGED <<etDate, phase, localDate, last_date, idx, daily_triggers, triggerFile,
                   apiBuysCache, positions, closeSynced, price, openPx, orders, holdingsDb,
                   closeRanDay, lastEval, subLog, resetEt>>

\* the thread started by _quick_sync_after_trade, finishing between two
\* iterations: the trade history is synced, or nothing on a failure
BackgroundSync(ok) ==
    /\ UNCHANGED <<histVars, snapVars, throttleVars, metricVars, iterVars, syncVars, lotVars, mergeVars, sizeVars, cycleVars>>
    /\ pc = "top"
    /\ bgSync
    /\ bgSync' = FALSE
    /\ dbSynced' = IF ok THEN ExecutedOrders(orders) ELSE dbSynced
    /\ UNCHANGED <<etDate, phase, localDate, last_date, pc, idx, daily_triggers, triggerFile,
                   apiBuysCache, positions, closeSynced, price, openPx, orders, holdingsDb,
                   closeRanDay, lastEval, subLog, resetEt>>

\* -- the loop of run_trading_loop --
\* run_monitoring_cycle: the first pass of a cycle on an open market
FirstStage(ph) == IF IsMarketOpenTime(ph) THEN "gap" ELSE "brk"

\* NextStage with the close-of-day branch ahead of the stop-loss sweep
NextStageCloseFirst(stage, ph) ==
    CASE stage = "gap" -> "brk"
      [] stage = "brk" -> IF IsNearMarketClose(ph) THEN "closesync" ELSE "stop"
      [] stage = "closesync" -> "prevstop"
      [] stage = "prevstop" -> "closelogic"
      [] stage = "closelogic" -> "stop"
      [] OTHER -> "end"

\* run_monitoring_cycle: what follows a pass of the cycle
NextStage(stage, ph) ==
    CASE stage = "gap" -> "brk"
      [] stage = "brk" -> "stop"
      [] stage = "stop" -> IF IsNearMarketClose(ph) THEN "closesync" ELSE "end"
      [] stage = "closesync" -> "prevstop"
      [] stage = "prevstop" -> "closelogic"
      [] OTHER -> "end"

\* reset_daily_triggers, as called when the operator's date differs from
\* last_date
ResetDailyTriggers(T) == EmptyTriggers

\* head of an iteration: the day check, update_price_cache with the quotes q
\* of the poller, get_status, and when the market is open the head of
\* run_monitoring_cycle, which refreshes the ledger from file and store.
\* The cache is overwritten at every iteration; its content between two
\* iterations is left out.
LoopHead(q, dbOk) ==
    /\ UNCHANGED <<histVars, snapVars, throttleVars, metricVars, iterVars, syncVars, lotVars, mergeVars, sizeVars, cycleVars>>
    /\ pc = "top"
    /\ last_date' = localDate
    /\ resetEt' = IF last_date # localDate THEN etDate ELSE resetEt
    /\ LET reset == last_date # localDate
           file == IF reset THEN SavedFile(ResetDailyTriggers(daily_triggers)) ELSE triggerFile
           T == IF reset THEN ResetDailyTriggers(daily_triggers) ELSE daily_triggers
       IN /\ triggerFile' = file
          /\ IF IsMarketOpen(phase)
             THEN /\ daily_triggers' = LoadDailyTriggers(T, file, etDate, dbOk)
                  /\ pc' = FirstStage(phase)
                  /\ price' = q
             ELSE /\ daily_triggers' = T
                  /\ pc' = "top"
                  /\ price' = NoPrice
                  /\ reset /\ dbOk /\ q = CHOOSE x \in Quotes : TRUE
    /\ UNCHANGED <<etDate, phase, localDate, idx, apiBuysCache, positions, closeSynced,
                   openPx, orders, dbSynced, holdingsDb, closeRanDay, bgSync, lastEval, subLog>>

\* the durable store holds a buy of the symbol dated today
StoreHoldsBuyToday(s) == \E i \in DbRows("buy") : orders[i].sym = s /\ orders[i].day = etDate

\* a trigger record that keeps the watchlist target as its entry price
RecordTriggerAtTarget(T, s, kind, last) ==
    [T EXCEPT ![s] = [entry_type |-> kind, entry_price |-> TargetPrice,
                      trigger_count |-> TriggerCount(T, s) + 1, sold |-> FALSE]]

\* execute_entry after an accepted order: the record of the symbol, with
\* entry_price = price_data["last"] and the count of the day raised by one
RecordTrigger(T, s, kind, last) ==
    [T EXCEPT ![s] = [entry_type |-> kind, entry_price |-> last,
                      trigger_count |-> TriggerCount(T, s) + 1, sold |-> FALSE]]

\* one watchlist item of the gap-up or of the breakout pass:
\* check_gap_up_entry / check_breakout_entry, then execute_entry
EntryStep(apiOk, dbOk, orderOk) ==
    /\ UNCHANGED <<histVars, snapVars, throttleVars, metricVars, iterVars, syncVars, lotVars, mergeVars, sizeVars, cycleVars>>
    /\ pc \in {"gap", "brk"}
    /\ \E B \in {BufferMemo} :
       LET s == Watchlist[idx]
           kind == IF pc = "gap" THEN "gap_up" ELSE "breakout"
           api_buys == LoadTodayApiBuys(apiBuysCache, etDate, apiOk)
           g == EntryGuards(daily_triggers, positions, s, api_buys, etDate, dbOk, TotalAssets)
           quote == IF pc = "gap" THEN openPx[s] ELSE price[s]
           signal == g.pass /\ quote >= TargetPrice
           buy_price == AddPriceBuffer(B, price[s])
           shares == CalculateShares(positions, buy_price)
           ok == signal /\ orderOk
           T2 == RecordTrigger(daily_triggers, s, kind, price[s])
       IN /\ ok => Len(orders) < MaxOrders
          /\ ~signal => orderOk
          /\ (apiBuysCache.loaded \/ ~g.g1) => apiOk
          /\ apiBuysCache' = IF ok THEN NoCache ELSE IF g.g1 THEN Cached(api_buys) ELSE apiBuysCache
          /\ orders' = IF ok
                       THEN Append(orders, NewOrder(s, "buy", shares, buy_price, kind, FALSE))
                       ELSE orders
          /\ positions' = IF ok THEN PositionAfterBuy(positions, s, shares, buy_price) ELSE positions
          /\ daily_triggers' = IF ok THEN T2 ELSE daily_triggers
          /\ triggerFile' = IF ok THEN SavedFile(T2) ELSE triggerFile
          /\ bgSync' = (bgSync \/ ok)
          /\ subLog' = IF signal THEN Append(subLog, Submission(s, "buy", shares, kind, orderOk))
                        ELSE subLog
          /\ lastEval' = [sym |-> s,
                          triggered |-> TriggerCount(daily_triggers, s) >= 1,
                          api |-> s \in api_buys,
                          db |-> HasTodayDbBuy(daily_triggers, s, etDate, dbOk),
                          brokerLog |-> s \in BrokerRecentBuys(etDate),
                          store |-> StoreHoldsBuyToday(s),
                          submitted |-> signal]
    /\ IF idx < Len(Watchlist)
       THEN idx' = idx + 1 /\ pc' = pc
       ELSE idx' = 1 /\ pc' = NextStage(pc, phase)
    /\ UNCHANGED <<etDate, phase, localDate, last_date, closeSynced, price, openPx, dbSynced,
                   holdingsDb, closeRanDay, resetEt>>

\* check_and_execute_stop_loss
StopLossStep(dbOk, env) ==
    /\ UNCHANGED <<histVars, snapVars, throttleVars, metricVars, iterVars, syncVars, lotVars, mergeVars, sizeVars, cycleVars>>
    /\ pc = "stop"
    /\ \E F \in {FloatTables} :
          /\ Relevant(F, "stop_loss_intraday", positions, TodayBought(daily_triggers, dbOk), env)
          /\ LET r == Sweep(F, "stop_loss_intraday", 1, positions, orders,
                            TodayBought(daily_triggers, dbOk), env)
             IN /\ Len(r.O) <= MaxOrders
                /\ positions' = r.P
                /\ orders' = r.O
                /\ subLog' = subLog \o r.S
    /\ lastEval' = NoEval
    /\ pc' = NextStage(pc, phase)
    /\ price' = IF IsNearMarketClose(phase) THEN price ELSE NoPrice
    /\ UNCHANGED <<etDate, phase, localDate, last_date, idx, daily_triggers, triggerFile,
                   apiBuysCache, closeSynced, openPx, dbSynced, holdingsDb,
                   closeRanDay, bgSync, resetEt>>

\* _sync_trade_history_before_close: once per process; a failure of the
\* sync leaves everything as it is, a failure of sync_positions_from_db
\* leaves the position cache
CloseSyncStep(syncOk, posOk) ==
    /\ UNCHANGED <<histVars, snapVars, throttleVars, metricVars, iterVars, syncVars, lotVars, mergeVars, sizeVars, cycleVars>>
    /\ pc = "closesync"
    /\ pc' = NextStage(pc, phase)
    /\ IF ~closeSynced /\ syncOk
       THEN /\ dbSynced' = ExecutedOrders(orders)
            /\ holdingsDb' = SyncHoldingsFromKis(holdingsDb)
            /\ positions' = IF posOk THEN SyncPositionsFromDb(SyncHoldingsFromKis(holdingsDb))
                            ELSE positions
            /\ closeSynced' = TRUE
       ELSE /\ posOk
            /\ closeSynced => syncOk
            /\ UNCHANGED <<dbSynced, holdingsDb, positions, closeSynced>>
    /\ UNCHANGED <<etDate, phase, localDate, last_date, idx, daily_triggers, triggerFile,
                   apiBuysCache, price, openPx, orders, closeRanDay, bgSync, lastEval,
                   subLog, resetEt>>

\* check_previous_holdings_stop_loss
PrevStopStep(dbOk, env) ==
    /\ UNCHANGED <<histVars, snapVars, throttleVars, metricVars, iterVars, syncVars, lotVars, mergeVars, sizeVars, cycleVars>>
    /\ pc = "prevstop"
    /\ \E F \in {FloatTables} :
          /\ Relevant(F, "stop_loss_close", positions, TodayBought(daily_triggers, dbOk), env)
          /\ LET r == Sweep(F, "stop_loss_close", 1, positions, orders,
                            TodayBought(daily_triggers, dbOk), env)
             IN /\ Len(r.O) <= MaxOrders
                /\ positions' = r.P
                /\ orders' = r.O
                /\ subLog' = subLog \o r.S
    /\ pc' = NextStage(pc, phase)
    /\ UNCHANGED <<etDate, phase, localDate, last_date, idx, daily_triggers, triggerFile,
                   apiBuysCache, closeSynced, price, openPx, dbSynced, holdingsDb,
                   closeRanDay, bgSync, lastEval, resetEt>>

\* execute_close_logic
CloseLogicStep(dbOk, env) ==
    /\ UNCHANGED <<histVars, snapVars, throttleVars, metricVars, iterVars, syncVars, lotVars, mergeVars, sizeVars, cycleVars>>
    /\ pc = "closelogic"
    /\ \E F \in {FloatTables} :
          /\ Relevant(F, "close", positions, TodayBought(daily_triggers, dbOk), env)
          /\ LET r == Sweep(F, "close", 1, positions, orders,
                            TodayBought(daily_triggers, dbOk), env)
             IN /\ Len(r.O) <= MaxOrders
                /\ positions' = r.P
                /\ orders' = r.O
                /\ subLog' = subLog \o r.S
    /\ closeRanDay' = etDate
    /\ pc' = NextStage(pc, phase)
    /\ price' = NoPrice
    /\ UNCHANGED <<etDate, phase, localDate, last_date, idx, daily_triggers, triggerFile,
                   apiBuysCache, closeSynced, openPx, dbSynced, holdingsDb,
                   bgSync, lastEval, resetEt>>

\* run_monitoring_cycle returns; the loop sleeps until the next iteration
CycleEnd ==
    /\ UNCHANGED <<histVars, snapVars, throttleVars, metricVars, iterVars, syncVars, lotVars, mergeVars, sizeVars, cycleVars>>
    /\ pc = "end"
    /\ pc' = "top"
    /\ subLog' = <<>>
    /\ UNCHANGED <<etDate, phase, localDate, last_date, idx, daily_triggers, triggerFile,
                   apiBuysCache, positions, closeSynced, price, openPx, orders, dbSynced,
                   holdingsDb, closeRanDay, bgSync, lastEval, resetEt>>

Next ==
    \/ \E o \in OpenQuotes \cup {NoPrice} : Tick(o)
    \/ LocalMidnight
    \/ \E i \in 1..MaxOrders : Fill(i)
    \/ \E s \in Symbols : ManualBuy(s)
    \/ \E ok \in BOOLEAN : BackgroundSync(ok)
    \/ \E q \in Quotes, dbOk \in BOOLEAN : LoopHead(q, dbOk)
    \/ \E apiOk, dbOk, orderOk \in BOOLEAN : EntryStep(apiOk, dbOk, orderOk)
    \/ \E dbOk \in BOOLEAN, env \in SweepEnv : StopLossStep(dbOk, env)
    \/ \E syncOk, posOk \in BOOLEAN : CloseSyncStep(syncOk, posOk)
    \/ \E dbOk \in BOOLEAN, env \in SweepEnv : PrevStopStep(dbOk, env)
    \/ \E dbOk \in BOOLEAN, env \in SweepEnv : CloseLogicStep(dbOk, env)
    \/ CycleEnd

\* ------------------------------------------------------------------------
\* Properties of the trading loop
\* ------------------------------------------------------------------------
EntryOrders(s, d) ==
    {i \in OrderIdx : orders[i].sym = s /\ orders[i].day = d /\ orders[i].kind \in EntryKinds}

\* C1: at most one automated entry order (gap-up or breakout) is accepted
\* per symbol and per exchange trading day.
C1_OneEntryPerDay ==
    \A s \in Symbols, d \in 1..MaxDay : Cardinality(EntryOrders(s, d)) <= 1

\* C2: the close-of-day logic runs at most once per trading day: a later
\* cycle of the closing window hands no further order to the broker from
\* execute_close_logic.
C2_CloseLogicOnce ==
    [][(pc = "closelogic" /\ closeRanDay = etDate) => orders' = orders]_vars

\* -- trigger reconciliation over the sources of the current state --
\* one source merged into the map T
MergeSource(k, T) ==
    CASE k = "json" -> LoadTriggersFromJson(T, triggerFile, etDate)
      [] k = "db" -> LoadTodayTradesFromDb(T, RecentRows("buy", etDate),
                                           RecentRows("sell", etDate), TRUE)
      [] OTHER -> MergeApiBuysToTriggers(T, BrokerRecentBuys(etDate))

\* __init__: _load_daily_triggers (file, then store), then
\* _merge_api_buys_to_triggers
CodeOrder == <<"json", "db", "api">>

Reconciled ==
    MergeSource(CodeOrder[3], MergeSource(CodeOrder[2], MergeSource(CodeOrder[1], EmptyTriggers)))

\* C8: no entry order is handed to the broker for a symbol while the store
\* holds a buy of that symbol dated today.
C8_NoEntryWhileStoreHoldsBuy ==
    (lastEval # NoEval /\ lastEval.store) => ~lastEval.submitted

\* C9: an entry order is handed to the broker only if the in-memory trigger
\* count is zero, the broker trade log of the last two days holds no buy of
\* the symbol and the store holds no buy of the symbol dated today.
C9_EntryOnlyIfGuardsHold ==
    (lastEval # NoEval /\ lastEval.submitted) =>
        /\ ~lastEval.triggered
        /\ ~lastEval.brokerLog
        /\ ~lastEval.store

C11_NoRetryInCycle ==
    \A i, j \in 1..Len(subLog) :
        (i < j /\ ~subLog[i].ok) =>
            ~(subLog[j].sym = subLog[i].sym /\ subLog[j].side = subLog[i].side)

\* a step of run_trading_loop that calls reset_daily_triggers
ResetStep == pc = "top" /\ last_date' # last_date

\* C12: the trigger ledger is reset only when the ET trading date has changed
\* since the last reset, never by a change of the operator's date within an
\* ET trading day.
C12_ResetOnlyOnEtDateChange == [][ResetStep => resetEt # etDate]_vars

\* the submissions a step adds to the cycle's log, those of a symbol
NewSubs(s) ==
    {i \in (Len(subLog) + 1)..Len(subLog') : subLog'[i].sym = s}

\* execute_close_logic submits exactly one order for the symbol: a buy
PyramidOnly(s) ==
    /\ Cardinality(NewSubs(s)) = 1
    /\ \A i \in NewSubs(s) : subLog'[i].side = "buy" /\ subLog'[i].kind = "pyramid"

\* execute_close_logic submits exactly one order for the symbol: a sell of q
SellOnly(s, q) ==
    /\ Cardinality(NewSubs(s)) = 1
    /\ \A i \in NewSubs(s) :
           /\ subLog'[i].side = "sell"
           /\ subLog'[i].kind = "close_below_entry"
           /\ subLog'[i].qty = q

PyramidSubmitted(s) ==
    \E i \in NewSubs(s) : subLog'[i].side = "buy" /\ subLog'[i].kind = "pyramid"

\* C28: in the pre-close window execute_close_logic submits a pyramid buy for
\* every symbol of today's bought set with an open position whose close price
\* is above its entry price, whether or not the units held of the symbol have
\* reached its max unit count.
C28_PyramidIgnoresUnitCap ==
    [][\A dbOk \in BOOLEAN, env \in SweepEnv :
           (pc = "closelogic" /\ CloseLogicStep(dbOk, env)) =>
               /\ IsNearMarketClose(phase)
               /\ \A s \in TodayBought(daily_triggers, dbOk) :
                      (IsOpenPos(positions, s) /\ price[s] > positions[s].entry_price)
                          => PyramidSubmitted(s)]_vars

\* the close logic has submitted a pyramid buy for a symbol whose units held
\* are at its max unit count
C28_Witness ==
    /\ pc = "end"
    /\ closeRanDay = etDate
    /\ \E i \in 1..Len(subLog) :
           /\ subLog[i].side = "buy"
           /\ subLog[i].kind = "pyramid"
           /\ AtMaxUnits(positions, subLog[i].sym, TRUE, TotalAssets)
           /\ BrokerQty(subLog[i].sym) * positions[subLog[i].sym].entry_price * 20
                  >= MaxUnits * TotalAssets

\* C19: a step in which the submission of a buy or sell order of a symbol
\* fails leaves the position of the symbol, its trigger record in memory and
\* on file, and the accepted orders of the symbol as they were.
C19_FailedOrderNoChange ==
    [][\A s \in Symbols :
           (\E i \in NewSubs(s) : ~subLog'[i].ok) =>
               /\ positions'[s] = positions[s]
               /\ daily_triggers'[s] = daily_triggers[s]
               /\ triggerFile' = triggerFile
               /\ \A j \in (Len(orders) + 1)..Len(orders') : orders'[j].sym # s]_vars

\* in one cycle a buy and a sell of a held symbol have failed, and the
\* position is still open
C19_Witness ==
    \E i, j \in 1..Len(subLog) :
        /\ ~subLog[i].ok /\ subLog[i].side = "buy"
        /\ ~subLog[j].ok /\ subLog[j].side = "sell"
        /\ subLog[i].sym = subLog[j].sym
        /\ IsOpenPos(positions, subLog[j].sym)

\* the buy orders of the symbol a step adds to the accepted orders
NewBuys(s) ==
    {j \in (Len(orders) + 1)..Len(orders') : orders'[j].sym = s /\ orders'[j].side = "buy"}

\* C27: a step of execute_entry in which the buy order of a symbol is
\* accepted leaves a trigger record of the symbol whose count is one greater
\* than before and whose entry price is the live last price; a step in which
\* no buy order of the symbol is accepted (no signal, or the order rejected
\* or failed) leaves the trigger record of the symbol as it was.
C27_TriggerIffAccepted ==
    [][(pc = "gap" \/ pc = "brk") =>
           \A s \in Symbols :
               (IF NewBuys(s) # {}
               THEN /\ HasTrig(daily_triggers', s)
                    /\ daily_triggers'[s].trigger_count = TriggerCount(daily_triggers, s) + 1
                    /\ daily_triggers'[s].entry_price = price[s]
                    /\ \E i \in NewSubs(s) : subLog'[i].ok
               ELSE /\ daily_triggers'[s] = daily_triggers[s]
                    /\ \A i \in NewSubs(s) : ~subLog'[i].ok)
      ]_vars

\* an entry order has been accepted at a live price above the watchlist
\* target, and the trigger record of the symbol holds that live price
C27_Witness ==
    \E i \in 1..Len(subLog) :
        /\ subLog[i].ok
        /\ subLog[i].kind \in EntryKinds
        /\ HasTrig(daily_triggers, subLog[i].sym)
        /\ daily_triggers[subLog[i].sym].trigger_count = 1
        /\ daily_triggers[subLog[i].sym].entry_price = price[subLog[i].sym]
        /\ daily_triggers[subLog[i].sym].entry_price > TargetPrice

\* the step accepts an entry order
EntryAccepted ==
    /\ (pc = "gap" \/ pc = "brk")
    /\ \E s \in Symbols : NewBuys(s) # {}

\* the step is the end of the background re-sync, successful or not
SyncEnds == bgSync /\ ~bgSync'

\* C33: the step of the main loop that accepts an entry order moves on to
\* the next watchlist item or pass with the background re-sync started and
\* the store as it was; and the end of the re-sync, failed or not, leaves
\* the position of the main loop and everything it works on but the store
\* as they were, a failed one the store too.
C33_SyncDetached ==
    [][/\ EntryAccepted =>
              /\ bgSync'
              /\ dbSynced' = dbSynced
              /\ pc' = (IF idx < Len(Watchlist) THEN pc ELSE NextStage(pc, phase))
       /\ SyncEnds =>
              /\ pc' = pc /\ idx' = idx /\ last_date' = last_date
              /\ positions' = positions /\ orders' = orders /\ subLog' = subLog
              /\ daily_triggers' = daily_triggers /\ triggerFile' = triggerFile
              /\ apiBuysCache' = apiBuysCache /\ holdingsDb' = holdingsDb
              /\ (dbSynced' = dbSynced \/ dbSynced' = ExecutedOrders(orders))
      ]_vars

\* the main loop has reached the stop-loss pass of the cycle in which an
\* entry order was accepted, and the background re-sync has not completed
C33_Witness ==
    /\ pc = "stop"
    /\ bgSync
    /\ \E i \in 1..Len(subLog) : subLog[i].ok /\ subLog[i].kind \in EntryKinds
    /\ dbSynced = {}

\* an entry order of the symbol has been accepted today and the background
\* re-sync started after it has not completed
EntryAwaitingSync(s) ==
    /\ bgSync
    /\ \E i \in OrderIdx :
           /\ orders[i].sym = s
           /\ orders[i].kind \in EntryKinds
           /\ orders[i].day = etDate

\* the step submits an entry order of the symbol
EntrySubmitted(s) == \E i \in NewSubs(s) : subLog'[i].kind \in EntryKinds

\* C34: between the acceptance of an entry order of a symbol and the
\* completion of the background trade-history re-sync, no step of a
\* monitoring cycle submits a second entry order of that symbol.
C34_NoEntryWhileSyncPending ==
    [][\A s \in Symbols : EntryAwaitingSync(s) => ~EntrySubmitted(s)]_vars

\* C36: within one cycle, whose quotes are those its head fetched, no sell
\* order of a symbol is submitted after an entry order of the symbol was
\* accepted.
C36_NoSellInEntryCycle ==
    \A i, j \in 1..Len(subLog) :
        (/\ i < j
         /\ subLog[i].kind \in EntryKinds
         /\ subLog[i].ok
         /\ subLog[j].sym = subLog[i].sym) => subLog[j].side # "sell"

\* a step of execute_entry that records an entry of the symbol in the ledger
EntryRecorded(s) ==
    /\ pc \in {"gap", "brk"}
    /\ TriggerCount(daily_triggers', s) > TriggerCount(daily_triggers, s)

\* a step that marks a triggered symbol as sold in the ledger
SoldMarked(s) ==
    /\ HasTrig(daily_triggers', s) /\ daily_triggers'[s].sold
    /\ ~(HasTrig(daily_triggers, s) /\ daily_triggers[s].sold)

\* C20: after a step that records an entry or marks a triggered symbol as
\* sold, the trigger file holds the record of the symbol as the map in memory
\* does, and a day reset leaves a file with no record.
C20_PersistAfterMutation ==
    [][/\ \A s \in Symbols :
             (EntryRecorded(s) \/ SoldMarked(s)) =>
                 /\ triggerFile' # NoFile
                 /\ triggerFile'.triggers[s] = daily_triggers'[s]
       /\ ResetStep => (triggerFile' # NoFile /\ triggerFile'.triggers = EmptyTriggers)]_vars

\* ------------------------------------------------------------------------
\* Part 3: the trigger reconciliation run over arbitrary sources
\*
\* The sources are drawn at the start and stay as they are: the trade rows of
\* the broker (orders), the rows of them the store holds (dbSynced) and the
\* trigger file. A run merges the three sources one by one into
\* daily_triggers; the first run may take them in any order, the run after a
\* complete first run in the order of the code takes them in that order
\* again, from the map line 88 has cleared.
\* ------------------------------------------------------------------------
MaxRows == 2

TradeRows ==
    [sym : Symbols, side : {"buy", "sell"}, qty : {1}, price : {TargetPrice},
     kind : {"manual"}, day : -1..1, filled : BOOLEAN]

\* records execute_entry and the store merge leave in the saved map
FileRecords ==
    {NoTrig} \cup [entry_type : EntryKinds \cup {"db"}, entry_price : {TargetPrice},
                   trigger_count : {1}, sold : {FALSE}]

TriggerFiles == {NoFile} \cup [date : 0..1, triggers : [Symbols -> FileRecords]]

MergeInit ==
    /\ etDate = 1
    /\ phase = "closed"
    /\ localDate = 1
    /\ last_date = 0
    /\ pc = "top"
    /\ idx = 1
    /\ daily_triggers = EmptyTriggers
    /\ triggerFile \in TriggerFiles
    /\ apiBuysCache = NoCache
    /\ positions = [s \in Symbols |-> NoPos]
    /\ closeSynced = FALSE
    /\ price = NoPrice
    /\ openPx = NoPrice
    /\ orders \in UNION {[1..n -> TradeRows] : n \in 0..MaxRows}
    /\ dbSynced \in SUBSET {i \in 1..Len(orders) : orders[i].filled}
    /\ holdingsDb = [s \in Symbols |-> NoHold]
    /\ closeRanDay = 0
    /\ bgSync = FALSE
    /\ lastEval = NoEval
    /\ subLog = <<>>
    /\ resetEt = 0
    /\ current_time = 0
    /\ last_status_time = 0
    /\ tradeStore = <<>>
    /\ lastSync = NoSync
    /\ histPc = "idle"
    /\ page = 0
    /\ all_trades = 0
    /\ tr_cont_next = ""
    /\ histResult = NoResult
    /\ requests = 0
    /\ delivered = 0
    /\ lastOk = TRUE
    /\ histCalls = 0
    /\ newestSnapshot = 0
    /\ now = ThrottleStart
    /\ last_call_time = [c \in Clients |-> 0]
    /\ sleeping = [t \in Threads |-> NoSleep]
    /\ lastRequest = NoRequest
    /\ lastGap = NoGap
    /\ metricLots = <<>>
    /\ cur_prc = NoRow
    /\ metricRuns = 0
    /\ total_assets = 0
    /\ lotCost = NoLotCost
    /\ unitsNow = NoUnits
    /\ stopNow = NoStop
    /\ checkLog = <<>>
    /\ cycleHeld = NoHeld
    /\ mergeLog = <<>>
    /\ firstRun = NoRun
    /\ trades = {}
    /\ lots = EmptyLots
    /\ prevLots = EmptyLots
    /\ lotPc = "idle"
    /\ lotCursor = 0
    /\ lotFresh = TRUE
    /\ lotWarned = FALSE
    /\ baseline = NoBaseline

Merged == {mergeLog[i] : i \in 1..Len(mergeLog)}

\* one of _load_triggers_from_json, _load_today_trades_from_db,
\* _merge_api_buys_to_triggers
MergeStep(k) ==
    /\ UNCHANGED <<histVars, snapVars, throttleVars, metricVars, iterVars, syncVars, lotVars, sizeVars, cycleVars>>
    /\ k \notin Merged
    /\ firstRun # NoRun => k = CodeOrder[Len(mergeLog) + 1]
    /\ daily_triggers' = MergeSource(k, daily_triggers)
    /\ mergeLog' = Append(mergeLog, k)
    /\ UNCHANGED <<etDate, phase, localDate, last_date, pc, idx, triggerFile,
                   apiBuysCache, positions, closeSynced, price, openPx, orders, dbSynced,
                   holdingsDb, closeRanDay, bgSync, lastEval, firstRun, subLog, resetEt>>

\* the reconciliation starts again after a complete first run in the order
\* of the code
RerunStart ==
    /\ UNCHANGED <<histVars, snapVars, throttleVars, metricVars, iterVars, syncVars, lotVars, sizeVars, cycleVars>>
    /\ firstRun = NoRun
    /\ mergeLog = CodeOrder
    /\ firstRun' = [map |-> daily_triggers]
    /\ mergeLog' = <<>>
    /\ daily_triggers' = ClearTriggers(daily_triggers)
    /\ UNCHANGED <<etDate, phase, localDate, last_date, pc, idx, triggerFile,
                   apiBuysCache, positions, closeSynced, price, openPx, orders, dbSynced,
                   holdingsDb, closeRanDay, bgSync, lastEval, subLog, resetEt>>

MergeNext ==
    \/ \E k \in {"json", "db", "api"} : MergeStep(k)
    \/ RerunStart

RunComplete == Len(mergeLog) = 3

\* the step merges the source k into the map
Merges(k) == mergeLog' = Append(mergeLog, k)

\* C29: merging the broker's trade-history buys into the trigger ledger
\* leaves every record the ledger holds as it is, field by field, and adds a
\* record only for a symbol that is absent from the ledger and among the
\* broker's buys.
C29_ApiMergeKeepsRecords ==
    [][Merges("api") =>
           \A s \in Symbols :
               IF HasTrig(daily_triggers, s)
               THEN daily_triggers'[s] = daily_triggers[s]
               ELSE HasTrig(daily_triggers', s) =>
                        /\ s \in BrokerRecentBuys(etDate)
                        /\ daily_triggers'[s].entry_type = "api"]_vars

\* the broker's buys have been merged last into a ledger that held a record
\* of a symbol the broker reports: the record is still that of the file or
\* of the store
C29_Witness ==
    /\ Len(mergeLog) > 1
    /\ mergeLog[Len(mergeLog)] = "api"
    /\ \E s \in BrokerRecentBuys(etDate) :
           /\ HasTrig(daily_triggers, s)
           /\ daily_triggers[s].entry_type # "api"
           /\ daily_triggers[s].entry_price = TargetPrice

\* the trigger file is absent or saved under another ET date
StaleFile == triggerFile = NoFile \/ triggerFile.date # etDate

\* C30: loading a trigger file whose date differs from the current ET
\* trading date adds no record to the ledger and changes none.
C30_StaleFileContributesNothing ==
    [][(Merges("json") /\ StaleFile) => daily_triggers' = daily_triggers]_vars

\* a file of another date that holds a record of a symbol has been loaded
\* first, and the ledger holds no record of the symbol
C30_Witness ==
    /\ mergeLog = <<"json">>
    /\ triggerFile # NoFile
    /\ triggerFile.date # etDate
    /\ \E s \in Symbols : HasTrig(triggerFile.triggers, s) /\ ~HasTrig(daily_triggers, s)

MaxHeld == 2

\* evlt_amt of the holdings row of a symbol: the shares at the quote
EvltAmt(H, px, s) == IF H[s] = NoHold THEN 0 ELSE H[s].qty * px[s]

\* rows of the latest snapshot_date: MAX(snapshot_date) is taken over the
\* whole table, the rows of the symbols outside the watchlist included
LatestRows(H) ==
    {s \in Symbols : /\ H[s] # NoHold
                     /\ H[s].date >= newestSnapshot
                     /\ \A t \in Symbols : H[t] # NoHold => H[t].date <= H[s].date}

RECURSIVE SumEvlt(_, _, _)
SumEvlt(H, px, S) ==
    IF S = {} THEN 0
    ELSE LET s == CHOOSE x \in S : TRUE
         IN EvltAmt(H, px, s) + SumEvlt(H, px, S \ {s})

\* get_total_assets: the cached value when there is one, else the buying
\* power plus the evaluation of the latest holdings snapshot, cached when
\* positive; a failing call adds nothing
GetTotalAssets(cache, H, px, cashOk, evalOk) ==
    IF cache > 0 THEN cache
    ELSE LET cash == IF cashOk THEN AccountValue ELSE 0
             stock == IF evalOk THEN SumEvlt(H, px, LatestRows(H)) ELSE 0
         IN IF cash + stock > 0 THEN cash + stock ELSE cache

\* get_current_units_held: purchase cost / (total_assets * 0.05), kept as
\* the pair of the cost and the total assets (units = 20 * cost / total)
GetCurrentUnitsHeld(cache, H, lc, P, px, s, io) ==
    LET total == GetTotalAssets(cache, H, px, io.cashOk, io.evalOk)
        pc0 == PurchaseCostOf(H, lc, P, s, io.holdOk, io.lotsOk)
    IN IF total <= 0
       THEN [sym |-> s, total |-> total, source |-> "none", cost |-> 0]
       ELSE [sym |-> s, total |-> total, source |-> pc0.source, cost |-> pc0.cost]

\* two results of get_current_units_held are the same number of units
SameUnits(a, b) ==
    IF a.total <= 0 \/ b.total <= 0 THEN a.cost = 0 /\ b.cost = 0
    ELSE (a.cost \div 100) * (b.total \div 100) = (b.cost \div 100) * (a.total \div 100)

IoAnswers == [cashOk : BOOLEAN, evalOk : BOOLEAN, holdOk : BOOLEAN, lotsOk : BOOLEAN]

AllOk == [cashOk |-> TRUE, evalOk |-> TRUE, holdOk |-> TRUE, lotsOk |-> TRUE]

HoldingRows ==
    {NoHold} \cup {[qty |-> q, avg |-> a, date |-> 1] : q \in 1..MaxHeld, a \in {10000, 11000}}

PositionEntries ==
    {NoPos} \cup {[status |-> st, entry_price |-> en, quantity |-> 1] :
                     st \in {"open", "closed"}, en \in SizeEntryPrices}

\* a fresh MonitorService over a drawn account
SizeInit ==
    /\ etDate = 1
    /\ phase = "closed"
    /\ localDate = 1
    /\ last_date = 0
    /\ pc = "top"
    /\ idx = 1
    /\ daily_triggers = EmptyTriggers
    /\ triggerFile = NoFile
    /\ apiBuysCache = NoCache
    /\ positions \in [Symbols -> PositionEntries]
    /\ closeSynced = FALSE
    /\ price \in Quotes
    /\ openPx = NoPrice
    /\ orders = <<>>
    /\ dbSynced = {}
    /\ holdingsDb \in [Symbols -> HoldingRows]
    /\ closeRanDay = 0
    /\ bgSync \in BOOLEAN
    /\ lastEval = NoEval
    /\ subLog = <<>>
    /\ resetEt = 0
    /\ current_time = 0
    /\ last_status_time = 0
    /\ tradeStore = <<>>
    /\ lastSync = NoSync
    /\ histPc = "idle"
    /\ page = 0
    /\ all_trades = 0
    /\ tr_cont_next = ""
    /\ histResult = NoResult
    /\ requests = 0
    /\ delivered = 0
    /\ lastOk = TRUE
    /\ histCalls = 0
    /\ newestSnapshot = 0
    /\ now = ThrottleStart
    /\ last_call_time = [c \in Clients |-> 0]
    /\ sleeping = [t \in Threads |-> NoSleep]
    /\ lastRequest = NoRequest
    /\ lastGap = NoGap
    /\ metricLots = <<>>
    /\ cur_prc = NoRow
    /\ metricRuns = 0
    /\ total_assets = 0
    /\ lotCost \in [Symbols -> {n * TargetPrice : n \in 0..MaxHeld}]
    /\ unitsNow = NoUnits
    /\ stopNow = NoStop
    /\ checkLog = <<>>
    /\ cycleHeld = NoHeld
    /\ mergeLog = <<>>
    /\ firstRun = NoRun
    /\ trades = {}
    /\ lots = EmptyLots
    /\ prevLots = EmptyLots
    /\ lotPc = "idle"
    /\ lotCursor = 0
    /\ lotFresh = TRUE
    /\ lotWarned = FALSE
    /\ baseline = NoBaseline

\* get_current_units_held(s) is called
EvalUnits(s, io) ==
    /\ UNCHANGED <<histVars, snapVars, throttleVars, metricVars, iterVars, syncVars, lotVars, loopVars, mergeVars, cycleVars>>
    /\ LET r == GetCurrentUnitsHeld(total_assets, holdingsDb, lotCost, positions, price, s, io)
       IN /\ total_assets' = r.total
          /\ unitsNow' = r @@ [lotsSeen |-> io.lotsOk /\ lotCost[s] # 0,
                                    holdSeen |-> io.holdOk /\ PurAmt(holdingsDb, s) # 0]
    /\ stopNow' = NoStop
    /\ UNCHANGED lotCost

\* check_stop_loss(s, current_price) is called
EvalStopLoss(s, current_price) ==
    /\ UNCHANGED <<histVars, snapVars, throttleVars, metricVars, iterVars, syncVars, lotVars, loopVars, mergeVars, cycleVars>>
    /\ stopNow' = [sym |-> s, current_price |-> current_price,
                   result |-> CheckStopLoss(StopLossMemo, positions, s, current_price)]
    /\ unitsNow' = NoUnits
    /\ UNCHANGED <<total_assets, lotCost>>

\* the market moves and the holdings snapshot is valued at the new quotes
QuoteMove(q) ==
    /\ UNCHANGED <<histVars, snapVars, throttleVars, metricVars, iterVars, syncVars, lotVars, mergeVars, cycleVars>>
    /\ q # price
    /\ price' = q
    /\ UNCHANGED <<etDate, phase, localDate, last_date, pc, idx, daily_triggers, triggerFile,
                   apiBuysCache, positions, closeSynced, openPx, orders, dbSynced, holdingsDb,
                   closeRanDay, bgSync, lastEval, subLog, resetEt>>
    /\ UNCHANGED sizeVars

\* the thread of _quick_sync_after_trade started by an earlier trade ends:
\* the cached total is dropped
QuickSyncEnds ==
    /\ UNCHANGED <<histVars, snapVars, throttleVars, metricVars, iterVars, syncVars, lotVars, mergeVars, cycleVars>>
    /\ bgSync
    /\ bgSync' = FALSE
    /\ total_assets' = 0
    /\ UNCHANGED <<etDate, phase, localDate, last_date, pc, idx, daily_triggers, triggerFile,
                   apiBuysCache, positions, closeSynced, price, openPx, orders, dbSynced,
                   holdingsDb, closeRanDay, lastEval, subLog, resetEt>>
    /\ UNCHANGED <<lotCost, unitsNow, stopNow>>

SizeNext ==
    \/ \E s \in Symbols, io \in IoAnswers : EvalUnits(s, io)
    \/ \E s \in Symbols, c \in StopQuotes : EvalStopLoss(s, c)
    \/ \E q \in Quotes : QuoteMove(q)
    \/ QuickSyncEnds

\* C13: two states that differ only in the market prices give the same
\* units_held for every symbol.
C13_UnitsIndependentOfQuotes ==
    \A s \in Symbols : \A q1, q2 \in Quotes :
        SameUnits(GetCurrentUnitsHeld(total_assets, holdingsDb, lotCost, positions, q1, s, AllOk),
                  GetCurrentUnitsHeld(total_assets, holdingsDb, lotCost, positions, q2, s, AllOk))

\* C14: units_held takes the purchase cost from the open lots first, from the
\* holdings feed only when the lots yield none, and from the position cache
\* only when both yield none.
C14_LedgerFirst ==
    unitsNow # NoUnits /\ unitsNow.total > 0 =>
        /\ unitsNow.lotsSeen => unitsNow.cost = lotCost[unitsNow.sym]
        /\ (~unitsNow.lotsSeen /\ unitsNow.holdSeen) =>
               unitsNow.cost = PurAmt(holdingsDb, unitsNow.sym)
        /\ (~unitsNow.lotsSeen /\ ~unitsNow.holdSeen) =>
               unitsNow.cost = PositionValue(positions, unitsNow.sym)

\* C15: check_stop_loss is true for an open position exactly when the
\* current price is at most entry_price * (1 - stop_loss_pct / 100): true at
\* that price itself, false one cent above it.
C15_StopLossAtBoundary ==
    (stopNow # NoStop /\ IsOpenPos(positions, stopNow.sym)) =>
        (stopNow.result <=>
            stopNow.current_price * 100
                <= positions[stopNow.sym].entry_price * (100 - StopLossPct))

\* ------------------------------------------------------------------------
\* Part 5: the order of the checks of one monitoring cycle
\*
\* run_monitoring_cycle over a watchlist of several items.  The outcome of
\* each check is drawn; what is kept is which check ran on which item, in the
\* order of the calls, and which items are held (bought today or before).
\* ------------------------------------------------------------------------
\* a fresh MonitorService with a watchlist of MaxItems items and some
\* positions of earlier days
CycleInit ==
    /\ etDate = 1
    /\ phase = "closed"
    /\ localDate = 1
    /\ last_date = 0
    /\ pc = "top"
    /\ idx = 1
    /\ daily_triggers = EmptyTriggers
    /\ triggerFile = NoFile
    /\ apiBuysCache = NoCache
    /\ positions = [s \in Symbols |-> NoPos]
    /\ closeSynced = FALSE
    /\ price = NoPrice
    /\ openPx = NoPrice
    /\ orders = <<>>
    /\ dbSynced = {}
    /\ holdingsDb = [s \in Symbols |-> NoHold]
    /\ closeRanDay = 0
    /\ bgSync = FALSE
    /\ lastEval = NoEval
    /\ subLog = <<>>
    /\ resetEt = 0
    /\ current_time = 0
    /\ last_status_time = 0
    /\ tradeStore = <<>>
    /\ lastSync = NoSync
    /\ histPc = "idle"
    /\ page = 0
    /\ all_trades = 0
    /\ tr_cont_next = ""
    /\ histResult = NoResult
    /\ requests = 0
    /\ delivered = 0
    /\ lastOk = TRUE
    /\ histCalls = 0
    /\ newestSnapshot = 0
    /\ now = ThrottleStart
    /\ last_call_time = [c \in Clients |-> 0]
    /\ sleeping = [t \in Threads |-> NoSleep]
    /\ lastRequest = NoRequest
    /\ lastGap = NoGap
    /\ metricLots = <<>>
    /\ cur_prc = NoRow
    /\ metricRuns = 0
    /\ total_assets = 0
    /\ lotCost = NoLotCost
    /\ unitsNow = NoUnits
    /\ stopNow = NoStop
    /\ checkLog = <<>>
    /\ cycleHeld \in [Items -> {"none", "before"}]
    /\ mergeLog = <<>>
    /\ firstRun = NoRun
    /\ trades = {}
    /\ lots = EmptyLots
    /\ prevLots = EmptyLots
    /\ lotPc = "idle"
    /\ lotCursor = 0
    /\ lotFresh = TRUE
    /\ lotWarned = FALSE
    /\ baseline = NoBaseline

cycleRest == <<etDate, localDate, last_date, daily_triggers, triggerFile, apiBuysCache,
               positions, closeSynced, price, openPx, orders, dbSynced, holdingsDb,
               closeRanDay, bgSync, lastEval, subLog, resetEt>>

\* run_monitoring_cycle is called at the time of day ph; on a closed market
\* it returns at once
CycleBegins(ph) ==
    /\ UNCHANGED <<histVars, snapVars, throttleVars, metricVars, iterVars, syncVars, lotVars, mergeVars, sizeVars, cycleRest>>
    /\ pc = "top"
    /\ phase' = ph
    /\ pc' = IF IsMarketOpen(ph) THEN FirstStage(ph) ELSE "end"
    /\ idx' = 1
    /\ checkLog' = <<>>
    /\ UNCHANGED cycleHeld

\* check_gap_up_entry / check_breakout_entry on the next watchlist item, and
\* execute_entry when the check says so (bought: the order went through)
EntryCheck(bought) ==
    /\ UNCHANGED <<histVars, snapVars, throttleVars, metricVars, iterVars, syncVars, lotVars, mergeVars, sizeVars, cycleRest>>
    /\ pc \in {"gap", "brk"}
    /\ checkLog' = Append(checkLog, Check(IF pc = "gap" THEN "gap_up" ELSE "breakout", idx))
    /\ cycleHeld' = IF bought THEN [cycleHeld EXCEPT ![idx] = "today"] ELSE cycleHeld
    /\ IF idx < MaxItems
       THEN idx' = idx + 1 /\ pc' = pc
       ELSE idx' = 1 /\ pc' = NextStage(pc, phase)
    /\ UNCHANGED phase

\* a sweep over the open positions: check_and_execute_stop_loss over those
\* bought today, check_previous_holdings_stop_loss over the others,
\* execute_close_logic over those bought today; sold are the positions the
\* sweep has closed
CheckSweep(stage, check, what, sold) ==
    /\ UNCHANGED <<histVars, snapVars, throttleVars, metricVars, iterVars, syncVars, lotVars, mergeVars, sizeVars, cycleRest>>
    /\ pc = stage
    /\ sold \subseteq HeldAs(cycleHeld, what)
    /\ checkLog' = checkLog \o SweepChecks(check, HeldAs(cycleHeld, what), 1)
    /\ cycleHeld' = [i \in Items |-> IF i \in sold THEN "none" ELSE cycleHeld[i]]
    /\ pc' = NextStage(pc, phase)
    /\ UNCHANGED <<phase, idx>>

\* _sync_trade_history_before_close
CycleCloseSync ==
    /\ UNCHANGED <<histVars, snapVars, throttleVars, metricVars, iterVars, syncVars, lotVars, mergeVars, sizeVars, cycleRest>>
    /\ pc = "closesync"
    /\ pc' = NextStage(pc, phase)
    /\ UNCHANGED <<phase, idx, checkLog, cycleHeld>>

\* run_monitoring_cycle returns
CycleReturns ==
    /\ UNCHANGED <<histVars, snapVars, throttleVars, metricVars, iterVars, syncVars, lotVars, mergeVars, sizeVars, cycleRest>>
    /\ pc = "end"
    /\ pc' = "top"
    /\ UNCHANGED <<phase, idx, checkLog, cycleHeld>>

CycleNext ==
    \/ \E ph \in {"closed", "open", "close"} : CycleBegins(ph)
    \/ \E bought \in BOOLEAN : EntryCheck(bought)
    \/ \E sold \in SUBSET Items : CheckSweep("stop", "stop_loss_intraday", "today", sold)
    \/ CycleCloseSync
    \/ \E sold \in SUBSET Items : CheckSweep("prevstop", "stop_loss_close", "before", sold)
    \/ \E sold \in SUBSET Items : CheckSweep("closelogic", "close", "today", sold)
    \/ CycleReturns

\* place of a check in the order C18 states
CheckRank(check) ==
    CASE check = "gap_up" -> 1
      [] check = "breakout" -> 2
      [] check \in {"stop_loss_intraday", "stop_loss_close"} -> 3
      [] OTHER -> 4

\* the check ran on every watchlist item before the j-th entry of the log
RanOnAllBefore(check, j) ==
    \A it \in Items : \E i \in 1..(j - 1) : checkLog[i] = Check(check, it)

\* C18: within one monitoring cycle no check of a later kind precedes a check
\* of an earlier kind (gap-up, breakout, stop-loss, close-of-day logic); a
\* breakout check of the opening minute comes after the gap-up checks of the
\* whole watchlist, and a stop-loss or close-of-day check after the
\* breakout checks of the whole watchlist.
C18_CheckOrder ==
    \A j \in 1..Len(checkLog) :
        /\ \A i \in 1..(j - 1) : CheckRank(checkLog[i].check) <= CheckRank(checkLog[j].check)
        /\ (checkLog[j].check = "breakout" /\ IsMarketOpenTime(phase))
               => RanOnAllBefore("gap_up", j)
        /\ CheckRank(checkLog[j].check) >= 3 => RanOnAllBefore("breakout", j)

\* a cycle of the last minutes of the session ran the breakout checks of the
\* whole watchlist, both stop-loss sweeps and the close logic, each on some
\* position
C18_Witness ==
    /\ pc = "end"
    /\ IsNearMarketClose(phase)
    /\ \A it \in Items : \E i \in 1..Len(checkLog) : checkLog[i] = Check("breakout", it)
    /\ \E i, j, k \in 1..Len(checkLog) :
           /\ checkLog[i].check = "stop_loss_intraday"
           /\ checkLog[j].check = "stop_loss_close"
           /\ checkLog[k].check = "close"

\* ------------------------------------------------------------------------
\* Part 6: one iteration of run_trading_loop and what ends the loop
\*
\* The body of "while True" (auto_trade.py 609-670) stands in one try
\* statement whose only handler is "except KeyboardInterrupt"; an exception
\* that a callee does not catch itself leaves the loop.  The iteration is
\* followed from its head to the status display; the callees of the head
\* catch their own failures (a failed write of the trigger file, an empty
\* answer of the poller).
\* ------------------------------------------------------------------------
\* seconds by which time.time() of an iteration may lie after the start
MaxElapsed == 2

\* time.time() when the loop starts, in seconds since the epoch
StartTime == 1000

\* STATUS_INTERVAL
StatusInterval == 3

Times == StartTime..(StartTime + MaxElapsed)

iterRest == <<etDate, phase, localDate, idx, apiBuysCache, positions, closeSynced, openPx,
              orders, dbSynced, holdingsDb, closeRanDay, bgSync, lastEval, subLog>>

\* lines 610-633: the clock is read, the day check calls
\* reset_daily_triggers (whose _save_daily_triggers keeps a failed write to
\* itself: saveOk) and load_watchlist, then the quotes q of the poller go
\* into the price cache
IterationHead(t, q, saveOk) ==
    /\ UNCHANGED <<histVars, snapVars, throttleVars, metricVars, syncVars, lotVars, mergeVars, sizeVars, cycleVars, iterRest>>
    /\ pc = "top"
    /\ current_time' = t
    /\ last_date' = localDate
    /\ IF last_date # localDate
       THEN /\ daily_triggers' = ResetDailyTriggers(daily_triggers)
            /\ triggerFile' = IF saveOk THEN SavedFile(ResetDailyTriggers(daily_triggers))
                              ELSE triggerFile
            /\ resetEt' = etDate
       ELSE /\ saveOk
            /\ UNCHANGED <<daily_triggers, triggerFile, resetEt>>
    /\ price' = q
    /\ pc' = "display"
    /\ UNCHANGED last_status_time

\* show_live_status (auto_trade.py 237-264), called when the status is due:
\* line 262 calls monitor._load_today_api_sells(), which MonitorService does
\* not define, so the call raises AttributeError
ShowLiveStatus(due) == IF due THEN "AttributeError" ELSE "not called"

\* lines 635-638: the status display; an exception it raises is not a
\* KeyboardInterrupt and ends run_trading_loop.  Without one the iteration
\* goes on with the reload check of line 641.
StatusDisplay ==
    /\ UNCHANGED <<histVars, snapVars, throttleVars, metricVars, syncVars, lotVars, mergeVars, sizeVars, cycleVars, iterRest>>
    /\ pc = "display"
    /\ LET due == current_time - last_status_time >= StatusInterval
           outcome == ShowLiveStatus(due)
       IN /\ pc' = IF outcome = "AttributeError" THEN "crashed" ELSE "reload"
          /\ last_status_time' = IF outcome = "returned" THEN current_time ELSE last_status_time
    /\ UNCHANGED <<current_time, last_date, daily_triggers, triggerFile, resetEt, price>>

\* Ctrl+C during the iteration: the handler of line 672 ends the loop
KeyboardInterrupt ==
    /\ UNCHANGED <<histVars, snapVars, throttleVars, metricVars, syncVars, lotVars, mergeVars, sizeVars, cycleVars, iterRest>>
    /\ pc \in {"top", "display"}
    /\ pc' = "stopped"
    /\ UNCHANGED <<iterVars, last_date, daily_triggers, triggerFile, resetEt, price>>

IterNext ==
    \/ \E o \in OpenQuotes \cup {NoPrice} : Tick(o)
    \/ LocalMidnight
    \/ \E t \in Times, q \in Quotes \cup {NoPrice}, saveOk \in BOOLEAN : IterationHead(t, q, saveOk)
    \/ StatusDisplay
    \/ KeyboardInterrupt

\* C21: no failure inside an iteration of the monitoring loop ends the loop;
\* the loop ends only by the interrupt of the operator.
C21_OnlyInterruptStops == pc # "crashed"

\* ------------------------------------------------------------------------
\* Part 7: the trade store under _sync_single_day_trades
\*
\* The records the broker returns for the queried date are written with
\* INSERT IGNORE.  The table definition is not part of the sources; the
\* unique key of account_trade_history is taken to be ord_no, the key built
\* from the order id components (ord_dt, ord_gno_brno, odno).
\* ------------------------------------------------------------------------
\* order numbers of the queried date, executed quantity of a record, and
\* records of one call
MaxOdno == 2
MaxFill == 2
MaxBatch == 1

\* the date of the query (ord_dt of every record returned)
QueryDate == 1

\* records of get_trade_history: sll_buy_dvsn_cd "01" sell / "02" buy
BrokerRecords ==
    [odno : 1..MaxOdno, ord_dt : {QueryDate}, sll_buy_dvsn_cd : {"01", "02"},
     ft_ccld_qty : 0..MaxFill]

Batches == UNION {[1..n -> BrokerRecords] : n \in 1..MaxBatch}

\* line 242: ord_no from the order id components
OrdNo(t) == <<t.ord_dt, t.odno>>

\* lines 228-270: the row written for a broker record
TradeRow(t) ==
    [ord_no |-> OrdNo(t),
     io_tp_nm |-> IF t.sll_buy_dvsn_cd = "01" THEN "sell" ELSE "buy",
     trade_date |-> t.ord_dt,
     cntr_qty |-> t.ft_ccld_qty]

StoredKeys(store) == {store[i].ord_no : i \in 1..Len(store)}

\* a plain INSERT into a table without the unique key: the row is added
InsertPlain(store, row) == [store |-> Append(store, row), rowcount |-> 1, raised |-> FALSE]

\* INSERT IGNORE: a row whose key is present is dropped with a warning
\* (rowcount 0), any other row is added (rowcount 1)
InsertIgnore(store, row) ==
    IF row.ord_no \in StoredKeys(store)
    THEN [store |-> store, rowcount |-> 0, raised |-> FALSE]
    ELSE [store |-> Append(store, row), rowcount |-> 1, raised |-> FALSE]

\* lines 224-274: the loop over all_trades from record i on; records with
\* an executed quantity of 0 are skipped
RECURSIVE SyncRecords(_, _, _)
SyncRecords(store, batch, i) ==
    IF i > Len(batch) THEN [store |-> store, count |-> 0, raised |-> FALSE]
    ELSE IF batch[i].ft_ccld_qty = 0 THEN SyncRecords(store, batch, i + 1)
    ELSE LET r == InsertIgnore(store, TradeRow(batch[i]))
             rest == SyncRecords(r.store, batch, i + 1)
         IN [store |-> rest.store,
             count |-> r.rowcount + rest.count,
             raised |-> r.raised \/ rest.raised]

\* the records of the batch that carry an executed quantity
Executed(batch) == {i \in 1..Len(batch) : batch[i].ft_ccld_qty # 0}

\* the executed records of the batch whose order number the store holds
Known(store, batch) == {i \in Executed(batch) : OrdNo(batch[i]) \in StoredKeys(store)}

\* _sync_single_day_trades with the records the broker returns
SyncSingleDayTrades(batch) ==
    /\ UNCHANGED <<histVars, snapVars, throttleVars, metricVars, iterVars, lotVars, loopVars, mergeVars, sizeVars, cycleVars>>
    /\ LET r == SyncRecords(tradeStore, batch, 1)
       IN /\ tradeStore' = r.store
          /\ lastSync' = [executed |-> Cardinality(Executed(batch)),
                          known |-> Cardinality(Known(tradeStore, batch)),
                          count |-> r.count,
                          raised |-> r.raised]

SyncNext == \E batch \in Batches : SyncSingleDayTrades(batch)

RowsOfKey(store, k) == {i \in 1..Len(store) : store[i].ord_no = k}

\* C23: a call of the sync leaves every row the store held as it was and in
\* its place, leaves one row per order number, and raises nothing; when the
\* store held every executed record of the call already, the store is as
\* before and the call counts no row.
C23_ResyncIsNoOp ==
    [][/\ ~lastSync'.raised
       /\ Len(tradeStore') >= Len(tradeStore)
       /\ SubSeq(tradeStore', 1, Len(tradeStore)) = tradeStore
       /\ \A k \in StoredKeys(tradeStore') : Cardinality(RowsOfKey(tradeStore', k)) = 1
       /\ lastSync'.known = lastSync'.executed
          => (tradeStore' = tradeStore /\ lastSync'.count = 0)]_vars

\* records synced before have been synced again: the call was given executed
\* records, the store knew them all and the call has counted no row
C23_Witness ==
    /\ lastSync # NoSync
    /\ lastSync.executed > 0
    /\ lastSync.known = lastSync.executed
    /\ lastSync.count = 0
    /\ tradeStore # <<>>

\* ------------------------------------------------------------------------
\* Part 8: the trading loop started on an account that carries a position
\*
\* run_trading_loop is started on ET day 1 either on the empty account of
\* LoopInit or on an account that bought one share of the watched symbol on
\* day 0, the day before. The start-up has synced the holdings and built the
\* position cache from them; the trade store holds the buy row or, when no
\* sync has run since, does not.
\* ------------------------------------------------------------------------
\* the buy of the previous day: a breakout entry at the target quote
CarriedBuy ==
    [sym |-> "AAA", side |-> "buy", qty |-> 1,
     price |-> AddPriceBuffer(BufferMemo, TargetPrice), kind |-> "breakout",
     day |-> 0, filled |-> TRUE]

\* state after MonitorService() and the start-up of run_trading_loop:
\* sync_holdings_from_kis, then sync_positions_from_db
CarryInit ==
    /\ etDate = 1
    /\ phase = "closed"
    /\ localDate = 1
    /\ last_date = 0
    /\ pc = "top"
    /\ idx = 1
    /\ daily_triggers = EmptyTriggers
    /\ triggerFile = NoFile
    /\ \E carried, synced \in BOOLEAN :
          /\ orders = IF carried THEN <<CarriedBuy>> ELSE <<>>
          /\ dbSynced = IF carried /\ synced THEN {1} ELSE {}
          /\ ~carried => ~synced
    /\ apiBuysCache = Cached(BrokerRecentBuys(etDate))
    /\ holdingsDb = SyncHoldingsFromKis([s \in Symbols |-> NoHold])
    /\ positions = SyncPositionsFromDb(holdingsDb)
    /\ closeSynced = FALSE
    /\ price = NoPrice
    /\ openPx = NoPrice
    /\ closeRanDay = 0
    /\ bgSync = FALSE
    /\ lastEval = NoEval
    /\ subLog = <<>>
    /\ resetEt = 0
    /\ current_time = 0
    /\ last_status_time = 0
    /\ tradeStore = <<>>
    /\ lastSync = NoSync
    /\ histPc = "idle"
    /\ page = 0
    /\ all_trades = 0
    /\ tr_cont_next = ""
    /\ histResult = NoResult
    /\ requests = 0
    /\ delivered = 0
    /\ lastOk = TRUE
    /\ histCalls = 0
    /\ newestSnapshot = 0
    /\ now = ThrottleStart
    /\ last_call_time = [c \in Clients |-> 0]
    /\ sleeping = [t \in Threads |-> NoSleep]
    /\ lastRequest = NoRequest
    /\ lastGap = NoGap
    /\ metricLots = <<>>
    /\ cur_prc = NoRow
    /\ metricRuns = 0
    /\ total_assets = 0
    /\ lotCost = NoLotCost
    /\ unitsNow = NoUnits
    /\ stopNow = NoStop
    /\ checkLog = <<>>
    /\ cycleHeld = NoHeld
    /\ mergeLog = <<>>
    /\ firstRun = NoRun
    /\ trades = {}
    /\ lots = EmptyLots
    /\ prevLots = EmptyLots
    /\ lotPc = "idle"
    /\ lotCursor = 0
    /\ lotFresh = TRUE
    /\ lotWarned = FALSE
    /\ baseline = NoBaseline

\* the buy orders of the symbol
BuyOrders(s) == {i \in OrderIdx : orders[i].sym = s /\ orders[i].side = "buy"}

\* the account holds shares of the symbol, the position cache has it open,
\* and every buy of it is of an earlier ET day
OpenedBefore(s) ==
    /\ BrokerQty(s) > 0
    /\ IsOpenPos(positions, s)
    /\ \A i \in BuyOrders(s) : orders[i].day < etDate

\* the symbol has been bought on the current ET day
OpenedToday(s) == \E i \in BuyOrders(s) : orders[i].day = etDate

\* C24: execute_close_logic submits no order, neither a pyramid buy nor a
\* sell, for a position opened before the current trading day.
C24_CloseLogicSkipsCarried ==
    [][pc = "closelogic" => \A s \in Symbols : OpenedBefore(s) => NewSubs(s) = {}]_vars

\* C25: check_and_execute_stop_loss submits a sell only for a position
\* opened on the current trading day, and never for a position opened on an
\* earlier day.
C25_IntradayStopOnlyToday ==
    [][pc = "stop" =>
           \A s \in Symbols :
               /\ NewSubs(s) # {} => OpenedToday(s)
               /\ OpenedBefore(s) => NewSubs(s) = {}]_vars

\* the stop-loss sells a step submits for the symbol
NewStopSells(s) ==
    {i \in NewSubs(s) : subLog'[i].kind \in {"stop_loss_intraday", "stop_loss_close"}}

\* C26: a position opened before the current trading day is stop-loss-sold
\* only inside the pre-close window, and check_previous_holdings_stop_loss
\* never sells a position opened today.
C26_CarriedStopOnlyAtClose ==
    [][\A s \in Symbols :
           /\ (OpenedBefore(s) /\ NewStopSells(s) # {}) => IsNearMarketClose(phase)
           /\ (pc = "prevstop" /\ OpenedToday(s)) => NewSubs(s) = {}]_vars

\* ------------------------------------------------------------------------
\* Part 9: the metric columns of the lots under update_lot_metrics
\*
\* The lot rows of one (stock, crd_class) group are drawn at the start, with
\* their metric columns NULL as the table creates them. The holdings snapshot
\* of today changes between calls: no row for the group, a row with a NULL
\* or zero cur_prc, or a row with a price. Prices are in cents.
\* ------------------------------------------------------------------------
MaxLotRows == 2
MaxRuns == 2

\* SQL NULL, and a stored number
Null == [null |-> TRUE]

Num(n) == [null |-> FALSE, v |-> n]

\* avg_purchase_price of the drawn lots
MetricAvgs == {0, 1000}

\* cur_prc of a holdings row: NULL, zero, below and above the average
MetricPrices == {Null, Num(0), Num(900), Num(1100)}

MetricRows ==
    [net_quantity : 1..2, avg_purchase_price : MetricAvgs, is_closed : BOOLEAN,
     current_price : {Null}, unrealized_pnl : {Null}, unrealized_return_pct : {Null}]

MetricInit ==
    /\ metricLots \in [1..MaxLotRows -> MetricRows]
    /\ cur_prc = NoRow
    /\ metricRuns = 0
    /\ trades = {}
    /\ lots = EmptyLots
    /\ prevLots = EmptyLots
    /\ lotPc = "idle"
    /\ lotCursor = 0
    /\ lotFresh = TRUE
    /\ lotWarned = FALSE
    /\ baseline = NoBaseline
    /\ etDate = 1
    /\ phase = "closed"
    /\ localDate = 1
    /\ last_date = 0
    /\ pc = "top"
    /\ idx = 1
    /\ daily_triggers = EmptyTriggers
    /\ triggerFile = NoFile
    /\ apiBuysCache = Cached({})
    /\ positions = [s \in Symbols |-> NoPos]
    /\ closeSynced = FALSE
    /\ price = NoPrice
    /\ openPx = NoPrice
    /\ orders = <<>>
    /\ dbSynced = {}
    /\ holdingsDb = [s \in Symbols |-> NoHold]
    /\ closeRanDay = 0
    /\ bgSync = FALSE
    /\ lastEval = NoEval
    /\ subLog = <<>>
    /\ resetEt = 0
    /\ current_time = 0
    /\ last_status_time = 0
    /\ tradeStore = <<>>
    /\ lastSync = NoSync
    /\ histPc = "idle"
    /\ page = 0
    /\ all_trades = 0
    /\ tr_cont_next = ""
    /\ histResult = NoResult
    /\ requests = 0
    /\ delivered = 0
    /\ lastOk = TRUE
    /\ histCalls = 0
    /\ newestSnapshot = 0
    /\ now = ThrottleStart
    /\ last_call_time = [c \in Clients |-> 0]
    /\ sleeping = [t \in Threads |-> NoSleep]
    /\ lastRequest = NoRequest
    /\ lastGap = NoGap
    /\ total_assets = 0
    /\ lotCost = NoLotCost
    /\ unitsNow = NoUnits
    /\ stopNow = NoStop
    /\ checkLog = <<>>
    /\ cycleHeld = NoHeld
    /\ mergeLog = <<>>
    /\ firstRun = NoRun

metricRest == <<histVars, snapVars, throttleVars, iterVars, syncVars, lotVars, loopVars, mergeVars, sizeVars, cycleVars>>

\* lines 320-323: prices[key] = Decimal(cur_prc) if cur_prc else Decimal(0);
\* prices.get(key) is None without a row (None is NoRow here)
PriceOfRow(row) ==
    IF row = NoRow THEN NoRow
    ELSE IF row = Null \/ row.v = 0 THEN Num(0)
    ELSE row

\* line 349: current_price is not None and current_price > 0
HasPrice(p) == p # NoRow /\ p.v > 0

\* a quotient of integers rounded half away from zero
SignedRoundDiv(n, d) == IF n >= 0 THEN RoundDiv(n, d) ELSE -RoundDiv(-n, d)

\* metric columns that are written as zero when no price is available
LotMetricsZero(lot, p) ==
    IF HasPrice(p)
    THEN [lot EXCEPT !.current_price = p,
                     !.unrealized_pnl = Num((p.v - lot.avg_purchase_price) * lot.net_quantity),
                     !.unrealized_return_pct =
                         IF lot.avg_purchase_price > 0
                         THEN Num(SignedRoundDiv((p.v - lot.avg_purchase_price) * 10000,
                                                 lot.avg_purchase_price))
                         ELSE Num(0)]
    ELSE [lot EXCEPT !.current_price = Num(0),
                     !.unrealized_pnl = Num(0),
                     !.unrealized_return_pct = Num(0)]

\* lines 349-372: the metric columns written for one open lot; the return is
\* in hundredths of a percent
LotMetrics(lot, p) ==
    IF HasPrice(p)
    THEN [lot EXCEPT !.current_price = p,
                     !.unrealized_pnl = Num((p.v - lot.avg_purchase_price) * lot.net_quantity),
                     !.unrealized_return_pct =
                         IF lot.avg_purchase_price > 0
                         THEN Num(SignedRoundDiv((p.v - lot.avg_purchase_price) * 10000,
                                                 lot.avg_purchase_price))
                         ELSE Num(0)]
    ELSE [lot EXCEPT !.current_price = Null,
                     !.unrealized_pnl = Null,
                     !.unrealized_return_pct = Null]

\* the holdings sync writes, replaces or removes today's row of the group
HoldingsSnapshot(row) ==
    /\ UNCHANGED metricRest
    /\ row # cur_prc
    /\ cur_prc' = row
    /\ UNCHANGED <<metricLots, metricRuns>>

\* update_lot_metrics: every row with is_closed = FALSE is updated
UpdateLotMetrics ==
    /\ UNCHANGED metricRest
    /\ metricRuns < MaxRuns
    /\ metricRuns' = metricRuns + 1
    /\ metricLots' = [d \in DOMAIN metricLots |->
                         IF metricLots[d].is_closed THEN metricLots[d]
                         ELSE LotMetrics(metricLots[d], PriceOfRow(cur_prc))]
    /\ UNCHANGED cur_prc

MetricNext ==
    \/ \E row \in MetricPrices \cup {NoRow} : HoldingsSnapshot(row)
    \/ UpdateLotMetrics

\* today's snapshot gives no price for the group: no row, or a NULL or zero
\* cur_prc
NoPriceAvailable == cur_prc = NoRow \/ cur_prc = Null \/ cur_prc.v = 0

AllNull(lot) ==
    /\ lot.current_price = Null
    /\ lot.unrealized_pnl = Null
    /\ lot.unrealized_return_pct = Null

\* C31: a call of update_lot_metrics made while no price is available leaves
\* current_price, unrealized_pnl and unrealized_return_pct NULL for every
\* open lot, whatever the columns held before; it never writes zero.
C31_NoPriceLeavesNull ==
    [][(metricRuns' # metricRuns /\ NoPriceAvailable) =>
           \A d \in DOMAIN metricLots :
               ~metricLots[d].is_closed => AllNull(metricLots'[d])]_vars

\* update_lot_metrics has run for the last time while today's snapshot had a
\* row with a zero cur_prc, and the metric columns of an open lot are NULL
C31_Witness ==
    /\ metricRuns = MaxRuns
    /\ cur_prc = Num(0)
    /\ \E d \in DOMAIN metricLots :
           /\ ~metricLots[d].is_closed
           /\ AllNull(metricLots[d])

\* ------------------------------------------------------------------------
\* Part 10: the throttle of the broker clients
\*
\* Every request of a KISAPIClient is preceded by _wait_for_rate_limit of
\* that instance. The process holds several instances; the main thread calls
\* through MonitorService.client and OrderService.client, the poll thread
\* through RestPricePoller.client, the background sync through a client of
\* its own. Time is counted in quarters of a second.
\* ------------------------------------------------------------------------
MaxClock == 3

\* _min_interval = 0.5 seconds
MinInterval == 2

\* the clients a thread calls through
ClientsOf(t) ==
    CASE t = "main" -> {"monitor", "order"}
      [] t = "poll" -> {"poller"}
      [] OTHER -> {"sync"}

ThrottleInit ==
    /\ now = ThrottleStart
    /\ last_call_time = [c \in Clients |-> 0]
    /\ sleeping = [t \in Threads |-> NoSleep]
    /\ lastRequest = NoRequest
    /\ lastGap = NoGap
    /\ metricLots = <<>>
    /\ cur_prc = NoRow
    /\ metricRuns = 0
    /\ trades = {}
    /\ lots = EmptyLots
    /\ prevLots = EmptyLots
    /\ lotPc = "idle"
    /\ lotCursor = 0
    /\ lotFresh = TRUE
    /\ lotWarned = FALSE
    /\ baseline = NoBaseline
    /\ etDate = 1
    /\ phase = "closed"
    /\ localDate = 1
    /\ last_date = 0
    /\ pc = "top"
    /\ idx = 1
    /\ daily_triggers = EmptyTriggers
    /\ triggerFile = NoFile
    /\ apiBuysCache = Cached({})
    /\ positions = [s \in Symbols |-> NoPos]
    /\ closeSynced = FALSE
    /\ price = NoPrice
    /\ openPx = NoPrice
    /\ orders = <<>>
    /\ dbSynced = {}
    /\ holdingsDb = [s \in Symbols |-> NoHold]
    /\ closeRanDay = 0
    /\ bgSync = FALSE
    /\ lastEval = NoEval
    /\ subLog = <<>>
    /\ resetEt = 0
    /\ current_time = 0
    /\ last_status_time = 0
    /\ tradeStore = <<>>
    /\ lastSync = NoSync
    /\ histPc = "idle"
    /\ page = 0
    /\ all_trades = 0
    /\ tr_cont_next = ""
    /\ histResult = NoResult
    /\ requests = 0
    /\ delivered = 0
    /\ lastOk = TRUE
    /\ histCalls = 0
    /\ newestSnapshot = 0
    /\ total_assets = 0
    /\ lotCost = NoLotCost
    /\ unitsNow = NoUnits
    /\ stopNow = NoStop
    /\ checkLog = <<>>
    /\ cycleHeld = NoHeld
    /\ mergeLog = <<>>
    /\ firstRun = NoRun

throttleRest ==
    <<histVars, snapVars, metricVars, iterVars, syncVars, lotVars, loopVars, mergeVars, sizeVars, cycleVars>>

\* the request that follows _wait_for_rate_limit goes out
SendRequest(c, slept) ==
    /\ lastRequest' = [time |-> now, client |-> c, slept |-> slept]
    /\ lastGap' = IF lastRequest = NoRequest THEN NoGap ELSE [gap |-> now - lastRequest.time]

ClockTick ==
    /\ UNCHANGED throttleRest
    /\ now < ThrottleStart + MaxClock
    /\ now' = now + 1
    /\ UNCHANGED <<last_call_time, sleeping, lastRequest, lastGap>>

\* _wait_for_rate_limit of client c on thread t: with the interval elapsed the
\* call time is stamped and the request sent, else the thread sleeps for the
\* rest of the interval
WaitForRateLimit(t, c) ==
    /\ UNCHANGED throttleRest
    /\ sleeping[t] = NoSleep
    /\ c \in ClientsOf(t)
    /\ LET elapsed == now - last_call_time[c]
       IN IF elapsed < MinInterval
          THEN /\ sleeping' = [sleeping EXCEPT ![t] =
                                  [client |-> c, until |-> now + (MinInterval - elapsed)]]
               /\ UNCHANGED <<last_call_time, lastRequest, lastGap>>
          ELSE /\ last_call_time' = [last_call_time EXCEPT ![c] = now]
               /\ SendRequest(c, FALSE)
               /\ UNCHANGED sleeping
    /\ UNCHANGED now

\* time.sleep returns, not before the time asked for: the call time is
\* stamped and the request sent
SleepReturns(t) ==
    /\ UNCHANGED throttleRest
    /\ sleeping[t] # NoSleep
    /\ now >= sleeping[t].until
    /\ last_call_time' = [last_call_time EXCEPT ![sleeping[t].client] = now]
    /\ SendRequest(sleeping[t].client, TRUE)
    /\ sleeping' = [sleeping EXCEPT ![t] = NoSleep]
    /\ UNCHANGED now

ThrottleNext ==
    \/ ClockTick
    \/ \E t \in Threads, c \in Clients : WaitForRateLimit(t, c)
    \/ \E t \in Threads : SleepReturns(t)

\* C32: any two consecutive requests the process sends to the broker, from
\* whichever thread and client, are at least the minimum throttle interval
\* apart.
C32_RequestsApart == lastGap # NoGap => lastGap.gap >= MinInterval

\* ------------------------------------------------------------------------
\* Specifications
\* ------------------------------------------------------------------------
\* ------------------------------------------------------------------------
\* Part 11: the position cache of an earlier session
\*
\* OrderService.__init__ loads the position cache from the positions file,
\* and a sync_positions_from_db that fails leaves it as loaded.  The trading
\* loop starts here on such a cache.  Either the symbol was bought and sold
\* before: execute_sell kept its entry with status "closed".  Or the symbol
\* was bought twice and only the first order was executed: execute_buy
\* counted the shares of both orders, the broker holds those of the first.
\* ------------------------------------------------------------------------
\* the entry execute_sell left behind: one share bought at the buffered target
ClosedEntry ==
    [status |-> "closed", entry_price |-> AddPriceBuffer(BufferMemo, TargetPrice), quantity |-> 1]

\* the entry execute_buy left behind: the carried share and one more of an
\* order that was accepted and never executed
StaleEntry ==
    [status |-> "open", entry_price |-> AddPriceBuffer(BufferMemo, TargetPrice), quantity |-> 2]

\* the holdings snapshot of the previous day: the executed share
StaleHoldings ==
    [s \in Symbols |-> [qty |-> 1, avg |-> AddPriceBuffer(BufferMemo, TargetPrice), date |-> 0]]

ReentryInit ==
    /\ etDate = 1
    /\ phase = "closed"
    /\ localDate = 1
    /\ last_date = 0
    /\ pc = "top"
    /\ idx = 1
    /\ daily_triggers = EmptyTriggers
    /\ triggerFile = NoFile
    /\ \E sold \in BOOLEAN :
          /\ positions = [s \in Symbols |-> IF sold THEN ClosedEntry ELSE StaleEntry]
          /\ orders = IF sold THEN <<>> ELSE <<CarriedBuy>>
          /\ dbSynced = IF sold THEN {} ELSE {1}
          /\ apiBuysCache = Cached(IF sold THEN {} ELSE Symbols)
          /\ holdingsDb = IF sold THEN [s \in Symbols |-> NoHold] ELSE StaleHoldings
    /\ closeSynced = FALSE
    /\ price = NoPrice
    /\ openPx = NoPrice
    /\ closeRanDay = 0
    /\ bgSync = FALSE
    /\ lastEval = NoEval
    /\ subLog = <<>>
    /\ resetEt = 0
    /\ current_time = 0
    /\ last_status_time = 0
    /\ tradeStore = <<>>
    /\ lastSync = NoSync
    /\ histPc = "idle"
    /\ page = 0
    /\ all_trades = 0
    /\ tr_cont_next = ""
    /\ histResult = NoResult
    /\ requests = 0
    /\ delivered = 0
    /\ lastOk = TRUE
    /\ histCalls = 0
    /\ newestSnapshot = 0
    /\ now = ThrottleStart
    /\ last_call_time = [c \in Clients |-> 0]
    /\ sleeping = [t \in Threads |-> NoSleep]
    /\ lastRequest = NoRequest
    /\ lastGap = NoGap
    /\ metricLots = <<>>
    /\ cur_prc = NoRow
    /\ metricRuns = 0
    /\ total_assets = 0
    /\ lotCost = NoLotCost
    /\ unitsNow = NoUnits
    /\ stopNow = NoStop
    /\ checkLog = <<>>
    /\ cycleHeld = NoHeld
    /\ mergeLog = <<>>
    /\ firstRun = NoRun
    /\ trades = {}
    /\ lots = EmptyLots
    /\ prevLots = EmptyLots
    /\ lotPc = "idle"
    /\ lotCursor = 0
    /\ lotFresh = TRUE
    /\ lotWarned = FALSE
    /\ baseline = NoBaseline

\* C35: a step in which a buy order of a symbol is accepted leaves the
\* position cache with an entry of the symbol whose status is "open", whether
\* the symbol had no entry, an open one or a closed one before.
C35_BuyLeavesOpen ==
    [][\A s \in Symbols :
           (\E j \in NewBuys(s) : orders'[j].kind # "manual") => IsOpenPos(positions', s)]_vars

\* sell orders of the symbol accepted in the step
NewSells(s) ==
    {j \in (Len(orders) + 1)..Len(orders') : orders'[j].sym = s /\ orders'[j].side = "sell"}

\* C38: a step of execute_sell whose accepted order is for fewer shares than
\* the position tracks (the quantity was reduced to what the broker reports
\* sellable) leaves the position open.
C38_PartialSellKeepsOpen ==
    [][\A s \in Symbols : \A j \in NewSells(s) :
           orders'[j].qty < positions[s].quantity => IsOpenPos(positions', s)]_vars

\* ------------------------------------------------------------------------
\* Part 12: the unit count of a symbol that left the account
\*
\* sync_holdings_from_kis replaces the rows of today's snapshot_date only, so
\* the row of a symbol sold since stays in the table under its older date.
\* The account is drawn as in Part 4, one day later: the rows of the watched
\* symbol are those of the previous day, and today's snapshot, when there is
\* one, holds other symbols only.
\* ------------------------------------------------------------------------
\* the trading date of today's snapshot; the drawn rows carry the date before
SnapshotDay == 2

UnitsInit ==
    /\ etDate = SnapshotDay
    /\ phase = "closed"
    /\ localDate = SnapshotDay
    /\ last_date = 0
    /\ pc = "top"
    /\ idx = 1
    /\ daily_triggers = EmptyTriggers
    /\ triggerFile = NoFile
    /\ apiBuysCache = NoCache
    /\ positions \in [Symbols -> PositionEntries]
    /\ closeSynced = FALSE
    /\ price \in Quotes
    /\ openPx = NoPrice
    /\ orders = <<>>
    /\ dbSynced = {}
    /\ holdingsDb \in [Symbols -> HoldingRows]
    /\ closeRanDay = 0
    /\ bgSync \in BOOLEAN
    /\ lastEval = NoEval
    /\ subLog = <<>>
    /\ resetEt = 0
    /\ current_time = 0
    /\ last_status_time = 0
    /\ tradeStore = <<>>
    /\ lastSync = NoSync
    /\ histPc = "idle"
    /\ page = 0
    /\ all_trades = 0
    /\ tr_cont_next = ""
    /\ histResult = NoResult
    /\ requests = 0
    /\ delivered = 0
    /\ lastOk = TRUE
    /\ histCalls = 0
    /\ newestSnapshot \in {0, SnapshotDay}
    /\ now = ThrottleStart
    /\ last_call_time = [c \in Clients |-> 0]
    /\ sleeping = [t \in Threads |-> NoSleep]
    /\ lastRequest = NoRequest
    /\ lastGap = NoGap
    /\ metricLots = <<>>
    /\ cur_prc = NoRow
    /\ metricRuns = 0
    /\ total_assets = 0
    /\ lotCost \in [Symbols -> {n * TargetPrice : n \in 0..MaxHeld}]
    /\ unitsNow = NoUnits
    /\ stopNow = NoStop
    /\ checkLog = <<>>
    /\ cycleHeld = NoHeld
    /\ mergeLog = <<>>
    /\ firstRun = NoRun
    /\ trades = {}
    /\ lots = EmptyLots
    /\ prevLots = EmptyLots
    /\ lotPc = "idle"
    /\ lotCursor = 0
    /\ lotFresh = TRUE
    /\ lotWarned = FALSE
    /\ baseline = NoBaseline

\* the symbol is not held: it has no row in the latest snapshot, no lot with
\* shares left and no open entry in the position cache
NotHeld(s) ==
    /\ s \notin LatestRows(holdingsDb)
    /\ lotCost[s] = 0
    /\ ~IsOpenPos(positions, s)

\* C39: get_current_units_held returns 0 for a symbol that is absent from
\* the most recent holdings snapshot and has no open lot and no open cached
\* position.
C39_NotHeldZeroUnits ==
    (unitsNow # NoUnits /\ NotHeld(unitsNow.sym)) => unitsNow.cost = 0

\* the position sizing on the day after the drawn snapshot
SpecUnits == UnitsInit /\ [][SizeNext]_vars

\* ------------------------------------------------------------------------
\* Part 13: the pages of get_trade_history (services/kis_service.py)
\*
\* A call asks the broker for page after page.  Every request is answered:
\* with an error (HTTP status other than 200, or rt_cd other than "0"), or
\* with some records, the header tr_cont ("M" = more pages follow) and the
\* two continuation keys.  The records are counted, not kept.
\* ------------------------------------------------------------------------
\* calls of get_trade_history
MaxCalls == 2

\* records of one page
MaxPageTrades == 1

\* max_pages = 100
max_pages == 100

\* the responses of the broker: ctx tells whether a continuation key is set
Responses ==
    [status : {200, 500}, rt_cd : {"0", "1"}, n : 0..MaxPageTrades,
     tr_cont : {"M", "D"}, ctx : BOOLEAN]

RespOk(resp) == resp.status = 200 /\ resp.rt_cd = "0"

HistoryInit ==
    /\ etDate = 1
    /\ phase = "closed"
    /\ localDate = 1
    /\ last_date = 0
    /\ pc = "top"
    /\ idx = 1
    /\ daily_triggers = EmptyTriggers
    /\ triggerFile = NoFile
    /\ apiBuysCache = Cached({})
    /\ positions = [s \in Symbols |-> NoPos]
    /\ closeSynced = FALSE
    /\ price = NoPrice
    /\ openPx = NoPrice
    /\ orders = <<>>
    /\ dbSynced = {}
    /\ holdingsDb = [s \in Symbols |-> NoHold]
    /\ closeRanDay = 0
    /\ bgSync = FALSE
    /\ lastEval = NoEval
    /\ subLog = <<>>
    /\ resetEt = 0
    /\ current_time = 0
    /\ last_status_time = 0
    /\ tradeStore = <<>>
    /\ lastSync = NoSync
    /\ histPc = "idle"
    /\ page = 0
    /\ all_trades = 0
    /\ tr_cont_next = ""
    /\ histResult = NoResult
    /\ requests = 0
    /\ delivered = 0
    /\ lastOk = TRUE
    /\ histCalls = 0
    /\ newestSnapshot = 0
    /\ now = ThrottleStart
    /\ last_call_time = [c \in Clients |-> 0]
    /\ sleeping = [t \in Threads |-> NoSleep]
    /\ lastRequest = NoRequest
    /\ lastGap = NoGap
    /\ metricLots = <<>>
    /\ cur_prc = NoRow
    /\ metricRuns = 0
    /\ total_assets = 0
    /\ lotCost = NoLotCost
    /\ unitsNow = NoUnits
    /\ stopNow = NoStop
    /\ checkLog = <<>>
    /\ cycleHeld = NoHeld
    /\ mergeLog = <<>>
    /\ firstRun = NoRun
    /\ trades = {}
    /\ lots = EmptyLots
    /\ prevLots = EmptyLots
    /\ lotPc = "idle"
    /\ lotCursor = 0
    /\ lotFresh = TRUE
    /\ lotWarned = FALSE
    /\ baseline = NoBaseline

histRest ==
    <<snapVars, throttleVars, metricVars, iterVars, syncVars, lotVars, loopVars, mergeVars,
      sizeVars, cycleVars>>

\* lines 321-326: get_trade_history is called
CallTradeHistory ==
    /\ UNCHANGED histRest
    /\ histPc # "running"
    /\ histCalls < MaxCalls
    /\ histCalls' = histCalls + 1
    /\ histPc' = "running"
    /\ page' = 0
    /\ all_trades' = 0
    /\ tr_cont_next' = ""
    /\ histResult' = NoResult
    /\ requests' = 0
    /\ delivered' = 0
    /\ lastOk' = TRUE

\* a loop that goes on for as long as the broker announces more pages
NextPageUncapped(resp) ==
    /\ UNCHANGED histRest
    /\ histPc = "running"
    /\ page <= max_pages
    /\ page' = page + 1
    /\ requests' = requests + 1
    /\ lastOk' = RespOk(resp)
    /\ UNCHANGED histCalls
    /\ IF ~RespOk(resp)
       THEN /\ histPc' = "raised"
            /\ all_trades' = 0
            /\ UNCHANGED <<tr_cont_next, histResult, delivered>>
       ELSE LET more == resp.tr_cont = "M" /\ resp.ctx
            IN /\ all_trades' = all_trades + resp.n
               /\ delivered' = delivered + resp.n
               /\ tr_cont_next' = IF resp.tr_cont = "M" THEN "N" ELSE tr_cont_next
               /\ histPc' = IF more THEN "running" ELSE "returned"
               /\ histResult' = IF more THEN NoResult
                                 ELSE [trades |-> all_trades + resp.n, warned |-> FALSE]

\* lines 328-380: one pass of the loop and, when it was the last, the return:
\* the request, the two error checks, the records, the two tests for more
\* pages, the loop condition
NextPage(resp) ==
    /\ UNCHANGED histRest
    /\ histPc = "running"
    /\ page < max_pages
    /\ page' = page + 1
    /\ requests' = requests + 1
    /\ lastOk' = RespOk(resp)
    /\ UNCHANGED histCalls
    /\ IF ~RespOk(resp)
       THEN /\ histPc' = "raised"
            /\ all_trades' = 0
            /\ UNCHANGED <<tr_cont_next, histResult, delivered>>
       ELSE LET more == resp.tr_cont = "M" /\ resp.ctx
                goOn == more /\ page + 1 < max_pages
            IN /\ all_trades' = all_trades + resp.n
               /\ delivered' = delivered + resp.n
               /\ tr_cont_next' = IF resp.tr_cont = "M" THEN "N" ELSE tr_cont_next
               /\ histPc' = IF goOn THEN "running" ELSE "returned"
               /\ histResult' = IF goOn THEN NoResult
                                 ELSE [trades |-> all_trades + resp.n,
                                       warned |-> page + 1 >= max_pages]

AnyPage == \E resp \in Responses : NextPage(resp)

HistoryNext ==
    \/ CallTradeHistory
    \/ AnyPage

\* the call has returned everything the answered pages held
ReturnedCollected ==
    /\ histPc = "returned"
    /\ histResult # NoResult
    /\ histResult.trades = delivered

\* C40 as stated: every call of get_trade_history ends after at most 100
\* page requests by returning the records collected so far.
C40_ReturnsWithinCap ==
    \A c \in 1..MaxCalls :
        (histCalls = c /\ histPc = "running")
            ~> (histCalls = c /\ requests <= max_pages /\ ReturnedCollected)

\* C40: every call of get_trade_history ends after at most 100 page
\* requests, whatever the broker answers: it returns the records collected
\* so far, or it raises because the last response was an error.
C40_EndsWithinCap ==
    \A c \in 1..MaxCalls :
        (histCalls = c /\ histPc = "running")
            ~> (/\ histCalls = c
                /\ requests <= max_pages
                /\ \/ ReturnedCollected
                   \/ histPc = "raised" /\ ~lastOk)

\* the broker announced more pages a hundred times: the call has returned
\* the records of all of them
C40_Witness ==
    /\ ReturnedCollected
    /\ requests = max_pages
    /\ histResult.warned
    /\ delivered > 0

\* get_trade_history alone; every request is answered
SpecHistory == HistoryInit /\ [][HistoryNext]_vars /\ WF_vars(AnyPage)

\* the trading loop on the position cache of an earlier session
SpecReentry == ReentryInit /\ [][Next]_vars

\* the trading loop on an empty account or on one that carries a position
SpecCarry == CarryInit /\ [][Next]_vars

\* the throttle of the broker clients alone
SpecThrottle == ThrottleInit /\ [][ThrottleNext]_vars

\* the lot metrics alone
SpecMetrics == MetricInit /\ [][MetricNext]_vars

\* the trade store under repeated syncs alone
SpecSync == LotInit /\ [][SyncNext]_vars

\* one iteration of the loop with its failures alone
SpecIter == LoopInit /\ [][IterNext]_vars

\* the trigger reconciliation alone
SpecMerge == MergeInit /\ [][MergeNext]_vars

SpecLots == LotInit /\ [][LotNext]_vars

\* the position sizing alone
SpecSize == SizeInit /\ [][SizeNext]_vars

\* the order of the checks of a cycle alone
SpecCycle == CycleInit /\ [][CycleNext]_vars

\* the trading loop alone (the lot ledger stands still)
Spec == LoopInit /\ [][Next]_vars

====
